---- MODULE Spec2Model ----
(***************************************************************************)
(* State-machine model of QscDebugSession (src/unnamed/part_001), the      *)
(* debug adapter session that bridges a DAP client and the Q# debug        *)
(* service.  Every asynchronous handler is a task; a task runs atomically  *)
(* from one suspension point (an awaited call into the debug service, the  *)
(* editor or a timer) to the next, as JavaScript's run-to-completion       *)
(* scheduling makes it.                                                    *)
(***************************************************************************)
EXTENDS Integers, Sequences, FiniteSets, TLC

VARIABLES
    failureMessage,       \* this.failureMessage
    breakpointLocations,  \* this.breakpointLocations : uri -> candidates
    breakpoints,          \* this.breakpoints : uri -> armed breakpoints
    showCircuit,          \* this.config.showCircuit
    stopOnEntry,          \* this.config.stopOnEntry
    revealedCircuit,      \* this.revealedCircuit
    panelOpen,            \* isPanelOpen("circuit")
    engineLocs,           \* what debugService.getBreakpoints(path) returns
    program,              \* getAllSources(this.program): the names of its sources
    tasks,                \* the handler invocations, by task id, each with the
                          \* history of what it called and sent, in order
    setBpResp,            \* uri -> request and response of the last setBreakpoints
    delayTimer,           \* the timer of delay(ConfigurationDelayMS) in launchRequest
    configListener        \* whether the once("sessionConfigurationDone") listener
                          \* of launchRequest is registered

vars == <<failureMessage, breakpointLocations, breakpoints, showCircuit,
          stopOnEntry, revealedCircuit, panelOpen, engineLocs, program, tasks,
          setBpResp, delayTimer, configListener>>

-----------------------------------------------------------------------------
(* Bounds of the model.                                                    *)

\* client requests handled in one session (Spec)
MaxRequests == 2
\* setBreakpoints requests handled in one session (SpecBp)
MaxBpRequests == 2
\* largest value of args.shots
MaxShots == 2
\* breakpoints in one setBreakpoints request
MaxReqBps == 1
\* engine locations of the source a.qs (SpecBp)
NumCands == 2
\* frames in one answer of getStackFrames (SpecStack)
MaxFrames == 2
\* stackTrace requests handled in one session (SpecStack)
MaxStackRequests == 2
\* setBreakpoints and breakpointLocations requests handled in one session (SpecLoc)
MaxLocRequests == 2
\* setBreakpoints, launch and step requests handled in one session (SpecStep)
MaxStepRequests == 4
\* sources of a program (SpecUri)
MaxSources == 2
\* calls of asUri on one session (SpecUri)
MaxUriCalls == 2
\* requests of a session in which documents may fail to open
MaxArmRequests == 3
\* requests of a session whose program has a dependency package
MaxDepRequests == 3
\* requests of a session whose setBreakpoints requests name a candidate twice
MaxDupRequests == 3
\* lines of a document (doc.lineCount)
DocLineCount == 2
\* length of every line of a document
LineLen == 1

-----------------------------------------------------------------------------
(* Sources.  The name of a source and the path a client sends are texts: *)
(* sequences of pieces, which are a scheme with its colon, the two slashes *)
(* of an empty authority, and pieces of a path.  A root source with the    *)
(* file scheme, a root source with another scheme, and the flat path the   *)
(* client sends for the first.                                             *)

UriA == <<"file:", "//", "/a.qs">>
UriB == <<"vfs:", "/b.qs">>
PathA == <<"/a.qs">>
PathUnknown == <<"/gone.qs">>
NoPath == <<>>

\* a source of a dependency package, and the path the client sends for it
UriDep == <<"file:", "//", "/dep.qs">>
PathDep == <<"/dep.qs">>

\* the sources of the root package, were they to include those of the
\* dependency packages
RootSources_AllPackages == <<UriA, UriB, UriDep>>

\* program.packageGraphSources.root.sources
RootSources == <<UriA, UriB>>

\* getAllSources(program) of the session model: the root package alone
AllKnownSources == RootSources

\* the sources of program.packageGraphSources.packages of a program with a
\* dependency package
PackageSources == <<UriDep>>

\* getAllSources(program) of that program
getAllSources == RootSources \o PackageSources

SchemePieces == {"file:", "vfs:"}
SchemeOf(piece) == IF piece = "file:" THEN "file" ELSE "vfs"
SchemePiece(scheme) == IF scheme = "file" THEN "file:" ELSE "vfs:"

\* percent-decoding and percent-encoding of one piece of a path
Decoded(piece) ==
    IF piece = "%20" THEN " " ELSE IF piece = "%2520" THEN "%20" ELSE piece
Encoded(piece) ==
    IF piece = " " THEN "%20" ELSE IF piece = "%20" THEN "%2520" ELSE piece

\* vscode.Uri.parse(value): the scheme before the colon, "file" when there is
\* none; the path after the authority, percent-decoded
UriParse(value) ==
    LET hasScheme == value # <<>> /\ Head(value) \in SchemePieces
        afterScheme == IF hasScheme THEN Tail(value) ELSE value
        hasAuthority == afterScheme # <<>> /\ Head(afterScheme) = "//"
        rest == IF hasAuthority THEN Tail(afterScheme) ELSE afterScheme
    IN  [scheme |-> IF hasScheme THEN SchemeOf(Head(value)) ELSE "file",
         path |-> [k \in 1..Len(rest) |-> Decoded(rest[k])]]

\* uri.toString(): the scheme, the two slashes for a file, the encoded path
UriToString(uri) ==
    <<SchemePiece(uri.scheme)>>
    \o (IF uri.scheme = "file" THEN <<"//">> ELSE <<>>)
    \o [k \in 1..Len(uri.path) |-> Encoded(uri.path[k])]

\* uri.fsPath, on a system whose paths are written with slashes
fsPath(uri) == uri.path

\* the constructor's loop over allKnownSources: knownPaths.set(uri.fsPath,
\* uri.toString()) for the sources with the file scheme
RECURSIVE KnownPathsAfter(_, _)
KnownPathsAfter(known, sources) ==
    IF sources = <<>> THEN known
    ELSE LET uri == UriParse(Head(sources))
             set == [q \in DOMAIN known \cup {fsPath(uri)} |->
                        IF q = fsPath(uri) THEN UriToString(uri) ELSE known[q]]
         IN  KnownPathsAfter(IF uri.scheme = "file" THEN set ELSE known, Tail(sources))

\* the constructor's knownPaths: fsPath -> uri, for file-scheme sources only
knownPaths == KnownPathsAfter(<<>>, program)

\* the paths a setBreakpoints request may name
RequestPaths == {NoPath, PathA, UriB, PathUnknown}

\* asUri: knownPaths.get(pathOrUri) || pathOrUri, parsed
asUri(pathOrUri) ==
    UriParse(IF pathOrUri \in DOMAIN knownPaths THEN knownPaths[pathOrUri] ELSE pathOrUri)

\* doc.uri.toString() of the document that openTextDocument(asUri(path)) opens
DocUri(path) == UriToString(asUri(path))

\* the documents vscode.workspace.openTextDocument can open
OpenableDocs == {UriA, UriB, UriDep}

\* tryLoadSource: <<>> for undefined, <<uri>> for the document of that uri
tryLoadSource(path) ==
    IF path = NoPath THEN <<>>
    ELSE IF DocUri(path) \in OpenableDocs THEN <<DocUri(path)>> ELSE <<>>

-----------------------------------------------------------------------------
(* Positions and ranges (vscode.Position, vscode.Range), 0-based.          *)

PosLE(p, q) == p[1] < q[1] \/ (p[1] = q[1] /\ p[2] <= q[2])

\* new vscode.Range(a, b) orders its two ends
Range(a, b) ==
    IF PosLE(a, b) THEN [start |-> a, end |-> b] ELSE [start |-> b, end |-> a]

\* range.contains(position): both ends inclusive
RangeContains(r, p) == PosLE(r.start, p) /\ PosLE(p, r.end)

\* doc.lineAt(line).range
LineRange(line) == [start |-> <<line, 0>>, end |-> <<line, LineLen>>]

\* The debugger is 0-based (setDebuggerLinesStartAt1(false)), the client 1-based.
convertClientLineToDebugger(line) == line - 1
convertClientColumnToDebugger(column) == column - 1
convertDebuggerLineToClient(line) == line + 1
convertDebuggerColumnToClient(column) == column + 1

-----------------------------------------------------------------------------
(* Breakpoint candidates.                                                  *)

\* createBreakpoint, were it to leave the breakpoint unverified and to take
\* the location's start for its end
createBreakpoint_StartOnly(id, location) ==
    [verified |-> FALSE, id |-> id, line |-> location.line,
     column |-> location.column, endLine |-> location.line,
     endColumn |-> location.column]

createBreakpoint(id, location) ==
    [verified |-> TRUE, id |-> id, line |-> location.line,
     column |-> location.column, endLine |-> location.endLine,
     endColumn |-> location.endColumn]

\* init's locations.map callback: one IBreakpointLocationData per engine location
MapLocation(location) ==
    LET uiLocation ==
            [line |-> convertDebuggerLineToClient(location.range.start[1]),
             column |-> convertDebuggerColumnToClient(location.range.start[2]),
             endLine |-> convertDebuggerLineToClient(location.range.end[1]),
             endColumn |-> convertDebuggerColumnToClient(location.range.end[2])]
    IN  [range |-> Range(location.range.start, location.range.end),
         uiLocation |-> uiLocation,
         breakpoint |-> createBreakpoint(location.id, uiLocation)]

MapLocations(locations) ==
    [k \in 1..Len(locations) |-> MapLocation(locations[k])]

\* breakpointLocations.get(uri) ?? []
LocationsOf(uri) ==
    IF uri \in DOMAIN breakpointLocations THEN breakpointLocations[uri] ELSE <<>>

-----------------------------------------------------------------------------
(* setBreakPointsRequest: resolution of the requested breakpoints.         *)
(* A requested breakpoint is [line, column], column <<>> when absent.      *)

\* !sourceBreakpoint.column : absent or 0
NoColumn(sourceBreakpoint) ==
    sourceBreakpoint.column = <<>> \/ sourceBreakpoint.column = <<0>>

InDocument(sourceBreakpoint) ==
    convertClientLineToDebugger(sourceBreakpoint.line) < DocLineCount

DesiredBpOffset(sourceBreakpoint) ==
    LET isLineBreakpoint == NoColumn(sourceBreakpoint)
        line == convertClientLineToDebugger(sourceBreakpoint.line)
        lineRange == LineRange(line)
        startCol == IF ~isLineBreakpoint
                    THEN convertClientColumnToDebugger(sourceBreakpoint.column[1])
                    ELSE lineRange.start[2]
        startPos == <<line, startCol>>
    IN  [range |-> Range(startPos, lineRange.end),
         isLineBreakpoint |-> isLineBreakpoint,
         uiLine |-> sourceBreakpoint.line]

DesiredBpOffsets(requested) ==
    LET inDoc == SelectSeq(requested, InDocument)
    IN  [k \in 1..Len(inDoc) |-> DesiredBpOffset(inDoc[k])]

\* the column test, were it the one of breakpointLocationsRequest
ColumnMatches_StartInRange(location, bpOffset) ==
    RangeContains(bpOffset.range, location.range.start)

\* the column test of the matching loop: location.range.contains(lo)
ColumnMatches(location, bpOffset) ==
    RangeContains(location.range, bpOffset.range.start)

\* the inner loop, were a line breakpoint to take the first matching location only
MatchesOf_FirstOnly(locations, bpOffset) ==
    LET Keep(location) ==
            /\ location.uiLocation.line = bpOffset.uiLine
            /\ (bpOffset.isLineBreakpoint \/ ColumnMatches(location, bpOffset))
        kept == SelectSeq(locations, Keep)
    IN  IF bpOffset.isLineBreakpoint /\ Len(kept) > 1
        THEN <<kept[1].breakpoint>>
        ELSE [k \in 1..Len(kept) |-> kept[k].breakpoint]

\* the inner loop: the locations one desired offset arms
MatchesOf(locations, bpOffset) ==
    LET Keep(location) ==
            /\ location.uiLocation.line = bpOffset.uiLine
            /\ (bpOffset.isLineBreakpoint \/ ColumnMatches(location, bpOffset))
        kept == SelectSeq(locations, Keep)
    IN  [k \in 1..Len(kept) |-> kept[k].breakpoint]

RECURSIVE ResolveBps(_, _)
ResolveBps(locations, offsets) ==
    IF offsets = <<>> THEN <<>>
    ELSE MatchesOf(locations, Head(offsets)) \o ResolveBps(locations, Tail(offsets))

-----------------------------------------------------------------------------
(* this.breakpoints is a JavaScript Map: a sequence of <<uri, bps>> in     *)
(* insertion order; set() of a present key keeps the key's place.          *)

MapHas(m, key) == \E k \in 1..Len(m) : m[k][1] = key

MapGet(m, key) == m[CHOOSE k \in 1..Len(m) : m[k][1] = key][2]

MapSet(m, key, value) ==
    IF MapHas(m, key)
    THEN [k \in 1..Len(m) |-> IF m[k][1] = key THEN <<key, value>> ELSE m[k]]
    ELSE Append(m, <<key, value>>)

\* the armed breakpoints of a source, <<>> when it has none
ArmedOf(uri) == IF MapHas(breakpoints, uri) THEN MapGet(breakpoints, uri) ELSE <<>>

IdsOf(bps) == [k \in 1..Len(bps) |-> bps[k].id]

RECURSIVE FlattenIds(_)
FlattenIds(m) ==
    IF m = <<>> THEN <<>> ELSE IdsOf(Head(m)[2]) \o FlattenIds(Tail(m))

\* the ids, were they those of the first source of the map only
getBreakpointIds_FirstSource ==
    IF breakpoints = <<>> THEN <<>> ELSE IdsOf(Head(breakpoints)[2])

\* getBreakpointIds(): the ids of the breakpoints of every source, source by
\* source in the map's order; every breakpoint the session stores has an id
getBreakpointIds == FlattenIds(breakpoints)

\* the stored list, were the resolved breakpoints pushed onto the armed ones
ArmedAfterSet_Merge(old, bps) == old \o bps

\* what the second set() stores, were a candidate resolved twice stored once
ArmedAfterSet_Distinct(old, bps) ==
    LET first == {i \in 1..Len(bps) : \A j \in 1..(i - 1) : bps[j] # bps[i]}
    IN  [k \in 1..Cardinality(first) |->
            bps[CHOOSE i \in first : Cardinality({j \in first : j < i}) = k - 1]]

\* what setBreakPointsRequest stores for the source: it empties the entry,
\* collects the resolved breakpoints in a fresh list and stores that list
ArmedAfterSet(old, bps) == bps

-----------------------------------------------------------------------------
(* Tasks and histories.                                                      *)

NoResult == [id |-> "None", value |-> 0]
Fault == [id |-> "Fault", value |-> 0]

\* StepResultId.Return
Completed == [id |-> "Return", value |-> 0]
\* StepResultId.Next, StepIn or StepOut
Progressed == [id |-> "Next", value |-> 0]
BreakpointHit(id) == [id |-> "BreakpointHit", value |-> id]

SeqRange(s) == {s[k] : k \in 1..Len(s)}

\* what an engine step or continuation call may answer, given the ids passed
Outcomes(bps) == {Completed, Progressed, Fault} \cup {BreakpointHit(id) : id \in SeqRange(bps)}

Task(kind, pc) ==
    [kind |-> kind, pc |-> pc, call |-> "", bps |-> <<>>, res |-> NoResult,
     noDebug |-> FALSE, shots |-> 0, i |-> 0, path |-> NoPath, k |-> 0,
     handle |-> "", hist |-> <<>>]

Ev(e, a, n, ids) == [e |-> e, a |-> a, n |-> n, ids |-> ids]

Call(fn, ids) == Ev("call", fn, 0, ids)
Response(command) == Ev("response", command, 0, <<>>)
\* a response whose body carries a list (breakpoints, stackFrames)
BodyResponse(command, list) == Ev("response", command, 1, list)
Console(text, n) == Ev("console", text, n, <<>>)

ErrorProgramHasErrors == "program contains compile errors(s): cannot run."
SimulationCompleted == "Q# simulation completed."
FinishedShot == "Finished shot"
CompileError == "compile error"

\* the host's init call is task 1; every later task is a client request
InitTask == 1
Requests == Len(tasks) - 1
InitDone == Len(tasks) >= 1 /\ tasks[InitTask].pc = "done"
Launched == \E t \in 1..Len(tasks) : tasks[t].kind = "launch"

VizActive == showCircuit \/ panelOpen

-----------------------------------------------------------------------------
(* Pieces of handlers.  Each takes the task and its history so far and    *)
(* gives the task at the handler's next suspension point, or at its end.   *)

Step(task, lg) == [task EXCEPT !.hist = lg]

\* a handler that returned: its locals are gone, its arguments and history stay
Finished(task, lg) ==
    [task EXCEPT !.pc = "done", !.call = "", !.bps = <<>>, !.res = NoResult,
                 !.i = 0, !.k = 0, !.hist = lg]

\* a handler whose promise rejects: nothing catches it
Rejected(task, lg) == [Finished(task, lg) EXCEPT !.pc = "rejected"]

\* endSession, were it to send the exited event before the terminated one
endSession_ExitedFirst(task, lg, exitCode) ==
    Finished(task, lg \o <<Console("", 0),
                            Console(SimulationCompleted, 0),
                            Ev("exited", "", exitCode, <<>>),
                            Ev("terminated", "", 0, <<>>)>>)

\* endSession(message, exitCode)
endSession(task, lg, exitCode) ==
    Finished(task, lg \o <<Console("", 0),
                            Console(SimulationCompleted, 0),
                            Ev("terminated", "", 0, <<>>),
                            Ev("exited", "", exitCode, <<>>)>>)

\* the start of updateCircuit(error): either it returns at once, having done
\* nothing, or it suspends on debugService.getCircuit()
updateCircuitWhen(active, task, lg, withError, pcWaiting) ==
    LET lg1 == Append(lg, Ev("updateCircuit", IF withError THEN "error" ELSE "", 0, <<>>))
    IN  IF active
        THEN Step([task EXCEPT !.pc = pcWaiting], Append(lg1, Call("getCircuit", <<>>)))
        ELSE Step([task EXCEPT !.pc = "updated"], Append(lg1, Ev("updated", "", 0, <<>>)))

updateCircuit(task, lg, withError, pcWaiting) ==
    updateCircuitWhen(VizActive, task, lg, withError, pcWaiting)

\* continue(), next(), stepIn(), stepOut() up to the engine call of eval_step
StartStep(task, lg, fn) ==
    LET bps == getBreakpointIds
    IN  Step([task EXCEPT !.pc = "evalStep", !.call = fn, !.bps = bps],
             Append(lg, Call(fn, bps)))

\* eval_step after updateCircuit
AfterStepUpdate(task, lg) ==
    IF task.res.id = "Fault" THEN endSession(task, lg, 1)
    ELSE IF task.res.id = "BreakpointHit"
         THEN Finished(task, Append(lg, Ev("stopped", "breakpoint", 0, <<task.res.value>>)))
    ELSE IF task.res.id = "Return" THEN endSession(task, lg, 0)
    ELSE Finished(task, Append(lg, Ev("stopped", "step", 0, <<>>)))

\* eval_step, were it to call updateCircuit() without the error it caught
eval_step_ErrorDropped(task, lg, outcome) ==
    LET task1 == [task EXCEPT !.res = outcome]
        u == updateCircuit(task1, lg, FALSE, "stepCircuit")
    IN  IF u.pc = "updated" THEN AfterStepUpdate(u, u.hist) ELSE u

\* eval_step from the engine's answer on
eval_step(task, lg, outcome) ==
    LET task1 == [task EXCEPT !.res = outcome]
        u == updateCircuit(task1, lg, outcome.id = "Fault", "stepCircuit")
    IN  IF u.pc = "updated" THEN AfterStepUpdate(u, u.hist) ELSE u

\* init(associationId) up to its loadProgram call
StartInit(task, lg) ==
    Step([task EXCEPT !.pc = "load"], Append(lg, Call("loadProgram", <<>>)))

\* the head of the shot loop, were it to pass the ids of the armed breakpoints
ShotLoop_ArmedIds(task, lg) ==
    IF task.i < task.shots
    THEN Step([task EXCEPT !.pc = "shotEval", !.call = "evalContinue",
                           !.bps = getBreakpointIds],
              Append(lg, Call("evalContinue", getBreakpointIds)))
    ELSE endSession(task, lg, 0)

\* the head of the shot loop, were its body to run before the first test of
\* i < args.shots
ShotLoop_BodyFirst(task, lg) ==
    IF task.i < task.shots \/ task.i = 0
    THEN Step([task EXCEPT !.pc = "shotEval", !.call = "evalContinue", !.bps = <<>>],
              Append(lg, Call("evalContinue", <<>>)))
    ELSE endSession(task, lg, 0)

\* the head of the shot loop of runWithoutDebugging, with task.i the loop's i
ShotLoop(task, lg) ==
    IF task.i < task.shots
    THEN Step([task EXCEPT !.pc = "shotEval", !.call = "evalContinue", !.bps = <<>>],
              Append(lg, Call("evalContinue", <<>>)))
    ELSE endSession(task, lg, 0)

\* the shot loop after the updateCircuit() of a shot whose call returned
AfterShotUpdate(task, lg) ==
    IF task.res.id # "Return" THEN endSession(task, lg, -1)
    ELSE StartInit(task, Append(lg, Console(FinishedShot, task.i + 1)))

\* the shot loop after its catch block's updateCircuit(error)
AfterShotCatchUpdate(task, lg) == endSession(task, lg, 1)

\* the shot loop, were it to test the result before it calls updateCircuit()
AfterShotEval_ResultFirst(task, lg, outcome) ==
    LET task1 == [task EXCEPT !.res = outcome]
    IN  IF outcome.id = "Fault"
        THEN LET u == updateCircuit(task1, lg, TRUE, "shotCircuitErr")
             IN  IF u.pc = "updated" THEN AfterShotCatchUpdate(u, u.hist) ELSE u
        ELSE IF outcome.id # "Return" THEN endSession(task1, lg, -1)
        ELSE LET u == updateCircuit(task1, lg, FALSE, "shotCircuit")
             IN  IF u.pc = "updated" THEN AfterShotUpdate(u, u.hist) ELSE u

\* the shot loop from the answer of evalContinue on
AfterShotEval(task, lg, outcome) ==
    LET task1 == [task EXCEPT !.res = outcome]
    IN  IF outcome.id = "Fault"
        THEN LET u == updateCircuit(task1, lg, TRUE, "shotCircuitErr")
             IN  IF u.pc = "updated" THEN AfterShotCatchUpdate(u, u.hist) ELSE u
        ELSE LET u == updateCircuit(task1, lg, FALSE, "shotCircuit")
             IN  IF u.pc = "updated" THEN AfterShotUpdate(u, u.hist) ELSE u

\* what follows the return of init, were the shot loop not to test the failure
AfterInit_FailureIgnored(task, lg, failure) ==
    IF task.kind # "launch" THEN Finished(task, lg)
    ELSE ShotLoop([task EXCEPT !.i = task.i + 1], lg)

\* what follows the return of init: nothing for the host's call; in the shot
\* loop the failure check, i++ and the loop's head
AfterInit(task, lg, failure) ==
    IF task.kind # "launch" THEN Finished(task, lg)
    ELSE IF failure # ""
         THEN endSession(task, Append(lg, Console(failure, 0)), -1)
    ELSE ShotLoop([task EXCEPT !.i = task.i + 1], lg)

\* launchRequest after the race, were the response sent once execution has begun
LaunchProceed_ResponseLate(task, lg) ==
    LET r == IF task.noDebug THEN ShotLoop([task EXCEPT !.i = 0], lg)
             ELSE IF stopOnEntry THEN StartStep(task, lg, "evalStepIn")
             ELSE StartStep(task, lg, "evalContinue")
    IN  Step(r, Append(r.hist, Response("launch")))

\* launchRequest after the race of configurationDone and the delay
LaunchProceed(task, lg) ==
    LET lg1 == Append(lg, Response("launch"))
    IN  IF task.noDebug THEN ShotLoop([task EXCEPT !.i = 0], lg1)
        ELSE IF stopOnEntry THEN StartStep(task, lg1, "evalStepIn")
        ELSE StartStep(task, lg1, "evalContinue")

-----------------------------------------------------------------------------
(* The engine's data and the inputs of the requests.                       *)

Positions == (0..(DocLineCount - 1)) \X (0..LineLen)

\* the ranges an engine location may have
CandRanges ==
    {r \in [start : Positions, end : Positions] : PosLE(r.start, r.end)}

\* the engine's locations in the session model: two statements on line 0 of a.qs,
\* the second running on to line 1, and one statement on line 1 of b.qs
EngineLocations ==
    (UriA :> <<[id |-> 1, range |-> [start |-> <<0, 0>>, end |-> <<0, 1>>]],
               [id |-> 2, range |-> [start |-> <<0, 1>>, end |-> <<1, 0>>]]>>)
    @@ (UriB :> <<[id |-> 3, range |-> [start |-> <<1, 0>>, end |-> <<1, LineLen>>]]>>)

\* a requested breakpoint: a client line, in the document or just past it, and no
\* column or a client column, on the line or just past its end
SourceBreakpoints ==
    [line : 1..(DocLineCount + 1),
     column : {<<>>} \cup {<<c>> : c \in 1..(LineLen + 2)}]

RECURSIVE SeqsUpTo(_, _)
SeqsUpTo(S, n) ==
    IF n = 0 THEN {<<>>}
    ELSE LET shorter == SeqsUpTo(S, n - 1)
         IN  shorter \cup {Append(q, x) : q \in {r \in shorter : Len(r) = n - 1}, x \in S}

\* the arguments of launch: args.shots is read by a no-debug launch only
LaunchArgs ==
    {[noDebug |-> FALSE, shots |-> 1]}
    \cup {[noDebug |-> TRUE, shots |-> n] : n \in 0..MaxShots}

\* args.breakpoints of the requests in the resolution model
AllRequested == SeqsUpTo(SourceBreakpoints, MaxReqBps)

\* args.breakpoints of the requests in the session model
SessionRequested ==
    {<<>>, <<[line |-> 1, column |-> <<>>]>>, <<[line |-> 2, column |-> <<1>>]>>}

\* the arguments of the breakpointLocations requests in the session model
SessionLocArgs ==
    {[line |-> 1, column |-> <<>>, endLine |-> <<>>, endColumn |-> <<>>],
     [line |-> 2, column |-> <<2>>, endLine |-> <<>>, endColumn |-> <<>>]}

-----------------------------------------------------------------------------
(* Actions.                                                                *)

session == <<failureMessage, breakpointLocations, breakpoints, revealedCircuit, setBpResp>>
config == <<showCircuit, stopOnEntry, panelOpen, engineLocs, program>>
race == <<delayTimer, configListener>>

\* the host calls init() once, before it hands the session to the client
InitCall ==
    /\ tasks = <<>>
    /\ tasks' = <<StartInit(Task("init", "load"), <<>>)>>
    /\ UNCHANGED <<session, config, race>>

\* what loadProgram answered, as the history keeps it
Loaded(failure) == Ev("loaded", failure, 0, <<>>)

\* init's test, were it to take every answer of loadProgram for a success
LoadSucceeded_Always(failure) == TRUE

\* init's test of the answer of loadProgram: failureMessage == ""
LoadSucceeded(failure) == failure = ""

\* debugService.loadProgram answers init
LoadReturns(t, failure) ==
    /\ tasks[t].pc = "load"
    /\ LET lg == Append(tasks[t].hist, Loaded(failure))
       IN  IF LoadSucceeded(failure)
           THEN /\ tasks' = [tasks EXCEPT ![t].pc = "getBps", ![t].k = 1,
                                          ![t].hist = Append(lg, Call("getBreakpoints",
                                                                      <<RootSources[1]>>))]
                /\ UNCHANGED failureMessage
           ELSE /\ failureMessage' = failure
                /\ LET r == AfterInit(tasks[t], lg, failure)
                   IN  tasks' = [tasks EXCEPT ![t] = r]
    /\ UNCHANGED <<breakpointLocations, breakpoints, revealedCircuit, setBpResp, config, race>>

\* debugService.getBreakpoints(path) answers init's loop over the root sources
GetBreakpointsReturns(t) ==
    /\ tasks[t].pc = "getBps"
    /\ LET path == RootSources[tasks[t].k]
           mapped == MapLocations(engineLocs[path])
       IN  breakpointLocations' =
               [u \in DOMAIN breakpointLocations \cup {path} |->
                   IF u = path THEN mapped ELSE breakpointLocations[u]]
    /\ IF tasks[t].k < Len(RootSources)
       THEN tasks' = [tasks EXCEPT ![t].k = tasks[t].k + 1,
                                   ![t].hist = Append(@, Call("getBreakpoints",
                                                         <<RootSources[tasks[t].k + 1]>>))]
       ELSE LET r == AfterInit([tasks[t] EXCEPT !.k = 0], tasks[t].hist, failureMessage)
            IN  tasks' = [tasks EXCEPT ![t] = r]
    /\ UNCHANGED <<failureMessage, breakpoints, revealedCircuit, setBpResp, config, race>>

\* the test, were launchRequest not to look at the failure message
ProgramHasErrors_Ignored == FALSE

\* launchRequest's test of the failure message init captured
ProgramHasErrors == failureMessage # ""

\* the wait, were a configurationDone handled earlier to resolve it at once
AwaitRace_Latched(task) ==
    IF \E c \in 1..Len(tasks) : tasks[c].kind = "configurationDone"
    THEN LaunchProceed(task, task.hist)
    ELSE task

\* await Promise.race([configurationDone, delay(ConfigurationDelayMS)]): the
\* listener is registered by once() here, and launchRequest is suspended
AwaitRace(task) == task

\* launchRequest up to its wait for configurationDone or the delay
LaunchRequest(noDebug, shots, bound) ==
    /\ InitDone /\ Requests < bound /\ ~Launched
    /\ LET task == [Task("launch", "waitConfig") EXCEPT
                        !.noDebug = noDebug, !.shots = shots]
       IN  IF ProgramHasErrors
           THEN /\ tasks' = Append(tasks, Finished(task,
                            <<Console(failureMessage, 0),
                              Ev("errorResponse", ErrorProgramHasErrors, -1, <<>>)>>))
                /\ UNCHANGED race
           ELSE /\ tasks' = Append(tasks, AwaitRace(task))
                /\ configListener' = TRUE
                /\ delayTimer' = "pending"
    /\ UNCHANGED <<session, config>>

\* one of the two promises of launchRequest's Promise.race resolves, were the
\* race to resume launchRequest each time
Resolve_EveryTime(task) == LaunchProceed(task, task.hist)

\* one of the two promises of launchRequest's Promise.race resolves: the
\* first one resumes launchRequest, a later one finds the race settled
Resolve(task) ==
    IF task.pc = "waitConfig" THEN LaunchProceed(task, task.hist) ELSE task

\* the timer, were delay's promise never to resolve
DelayPending_NeverFires == FALSE

\* delay(ms): setTimeout(resolve, ms) has been called and has not fired yet
DelayPending == delayTimer = "pending"

\* the timer of delay(ConfigurationDelayMS) fires
DelayElapses(t) ==
    /\ tasks[t].kind = "launch" /\ DelayPending
    /\ delayTimer' = "fired"
    /\ tasks' = [tasks EXCEPT ![t] = Resolve(tasks[t])]
    /\ UNCHANGED <<session, config, configListener>>

\* configurationDoneRequest: the response, then the emit that resolves the
\* promise of a launch that is waiting
ConfigurationDoneRequest ==
    /\ InitDone /\ Requests < MaxRequests
    /\ LET done == Finished(Task("configurationDone", "done"),
                            <<Response("configurationDone")>>)
           listening == {w \in 1..Len(tasks) : tasks[w].kind = "launch" /\ configListener}
       IN  IF listening = {}
           THEN tasks' = Append(tasks, done)
           ELSE LET w == CHOOSE w \in listening : TRUE
                IN  tasks' = Append([tasks EXCEPT ![w] = Resolve(@)], done)
    /\ configListener' = FALSE
    /\ UNCHANGED <<session, config, delayTimer>>

StepCommands ==
    [continue |-> "evalContinue", next |-> "evalNext",
     stepIn |-> "evalStepIn", stepOut |-> "evalStepOut"]

\* continueRequest, nextRequest, stepInRequest, stepOutRequest
StepRequest(command, bound) ==
    /\ InitDone /\ Requests < bound /\ Launched
    /\ tasks' = Append(tasks, StartStep(Task(command, "evalStep"),
                                        <<Response(command)>>, StepCommands[command]))
    /\ UNCHANGED <<session, config, race>>

\* the ids of a step's call, were the engine to read the armed breakpoints
\* while the call is in flight
IdsInFlight_Live(task) == getBreakpointIds

\* the ids of a step's call in flight: the array 'const bps' that continue(),
\* next(), stepIn() or stepOut() filled before the call
IdsInFlight(task) == task.bps

\* the engine answers the call of eval_step
StepReturns(t, outcome) ==
    /\ tasks[t].pc = "evalStep"
    /\ outcome \in Outcomes(IdsInFlight(tasks[t]))
    /\ LET lg1 == Append(tasks[t].hist, Ev("return", outcome.id, outcome.value, <<>>))
           r == eval_step(tasks[t], lg1, outcome)
       IN  tasks' = [tasks EXCEPT ![t] = r]
    /\ UNCHANGED <<session, config, race>>

\* the engine answers the evalContinue of a shot
ShotReturns(t, outcome) ==
    /\ tasks[t].pc = "shotEval"
    /\ outcome \in Outcomes(tasks[t].bps)
    /\ LET lg1 == Append(tasks[t].hist, Ev("return", outcome.id, outcome.value, <<>>))
           r == AfterShotEval(tasks[t], lg1, outcome)
       IN  tasks' = [tasks EXCEPT ![t] = r]
    /\ UNCHANGED <<session, config, race>>

\* variablesRequest after its switch: the response
\* the one variable of the circuit scope
CircuitVariable ==
    [name |-> "Circuit", value |-> "See Q# Circuit panel", variablesReference |-> 0]

\* response.body.variables: the fixed entry of the circuit scope; the locals
\* and the quantum state are the engine's, and are left out
VariablesBody(handle) == IF handle = "circuit" THEN <<CircuitVariable>> ELSE <<>>

VariablesRespond(task, lg) ==
    Finished(task, Append(lg, BodyResponse("variables", VariablesBody(task.handle))))

\* what follows updateCircuit in the handler that called it
AfterUpdate(task, lg) ==
    IF task.pc = "stepCircuit" THEN AfterStepUpdate(task, lg)
    ELSE IF task.pc = "shotCircuit" THEN AfterShotUpdate(task, lg)
    ELSE IF task.pc = "varsCircuit" THEN VariablesRespond(task, lg)
    ELSE AfterShotCatchUpdate(task, lg)

\* the third argument of updateCircuitPanel, were the flag not consulted
Reveal_Always == TRUE

\* the third argument of updateCircuitPanel: !this.revealedCircuit
Reveal == ~revealedCircuit

\* the places where a handler waits for debugService.getCircuit()
CircuitWaits == {"stepCircuit", "shotCircuit", "shotCircuitErr", "varsCircuit"}

\* debugService.getCircuit() answers updateCircuit: updateCircuitPanel, with
\* the reveal flag (n) and simulated: true, and the rest of the handler
CircuitReturns(t) ==
    /\ tasks[t].pc \in CircuitWaits
    /\ LET withError == \/ tasks[t].pc = "stepCircuit" /\ tasks[t].res.id = "Fault"
                        \/ tasks[t].pc = "shotCircuitErr"
           lg1 == tasks[t].hist \o <<Ev("panel", IF withError THEN "error" ELSE "",
                              IF Reveal THEN 1 ELSE 0, <<"simulated">>),
                           Ev("updated", "panel", 0, <<>>)>>
           r == AfterUpdate(tasks[t], lg1)
       IN  tasks' = [tasks EXCEPT ![t] = r]
    /\ revealedCircuit' = TRUE
    /\ UNCHANGED <<failureMessage, breakpointLocations, breakpoints, setBpResp, config, race>>

\* the rejection of updateCircuit, were eval_step to catch it and go on to
\* its result
UpdateRejected_Caught(task, lg) ==
    IF task.pc = "stepCircuit" THEN AfterStepUpdate(task, lg) ELSE Rejected(task, lg)

\* updateCircuit rejects where nothing catches it: in eval_step, in the catch
\* block of the shot loop, in variablesRequest
UpdateRejected(task, lg) == Rejected(task, lg)

\* the rejection of the try block's updateCircuit(), were the shot loop to
\* take the shot for finished
ShotUpdateRejected_Finished(task, lg) == AfterShotUpdate(task, lg)

\* updateCircuit() rejects in the try block of the shot loop: the catch block
\* calls updateCircuit(error), then endSession(.., 1)
ShotUpdateRejected(task, lg) ==
    LET r == updateCircuit(task, lg, TRUE, "shotCircuitErr")
    IN  IF r.pc = "updated" THEN AfterShotCatchUpdate(r, r.hist) ELSE r

\* debugService.getCircuit() fails: updateCircuit rejects
CircuitFails(t) ==
    /\ tasks[t].pc \in CircuitWaits
    /\ LET lg1 == Append(tasks[t].hist, Ev("fault", "getCircuit", 0, <<>>))
           r == IF tasks[t].pc = "shotCircuit"
                THEN ShotUpdateRejected(tasks[t], lg1)
                ELSE UpdateRejected(tasks[t], lg1)
       IN  tasks' = [tasks EXCEPT ![t] = r]
    /\ UNCHANGED <<session, config, race>>

\* the handles that scopesRequest creates, and the engine call of each
VariableHandles ==
    [locals |-> "getLocalVariables", quantum |-> "captureQuantumState",
     circuit |-> "getCircuit"]

\* case "circuit" of variablesRequest, were it not to update the circuit
VariablesCircuit_NoUpdate(task, on) == VariablesRespond(task, task.hist)

\* case "circuit" of variablesRequest, were it to update the circuit at every
\* expansion of the scope
VariablesCircuit_EveryTime(task, on) ==
    updateCircuitWhen(TRUE, task, task.hist, FALSE, "varsCircuit")

\* case "circuit" of variablesRequest, given whether config.showCircuit is on:
\* if it is off it is turned on, and updateCircuit() finds it on
VariablesCircuit(task, on) ==
    IF on THEN VariablesRespond(task, task.hist)
    ELSE updateCircuitWhen(TRUE, task, task.hist, FALSE, "varsCircuit")

\* variablesRequest up to its first suspension
VariablesRequest(handle) ==
    /\ InitDone /\ Requests < MaxRequests
    /\ LET task == [Task("variables", "varsCall") EXCEPT !.handle = handle]
       IN  IF handle = "circuit"
           THEN /\ tasks' = Append(tasks, VariablesCircuit(task, showCircuit))
                /\ showCircuit' = TRUE
           ELSE /\ tasks' = Append(tasks, Step(task, <<Call(VariableHandles[handle], <<>>)>>))
                /\ UNCHANGED showCircuit
    /\ UNCHANGED <<session, stopOnEntry, panelOpen, engineLocs, program, race>>

\* getLocalVariables or captureQuantumState answers, or fails: the response,
\* or a rejection that nothing catches
VariablesReturns(t, ok) ==
    /\ tasks[t].pc = "varsCall"
    /\ tasks' = [tasks EXCEPT ![t] =
                    IF ok THEN VariablesRespond(@, @.hist)
                    ELSE Rejected(@, Append(@.hist, Ev("fault", VariableHandles[@.handle], 0, <<>>)))]
    /\ UNCHANGED <<session, config, race>>

\* disconnectRequest: debugService.terminate(), not awaited, then the response
DisconnectRequest ==
    /\ InitDone /\ Requests < MaxRequests
    /\ tasks' = Append(tasks, Finished(Task("disconnect", "done"),
                                       <<Call("terminate", <<>>), Response("disconnect")>>))
    /\ UNCHANGED <<session, config, race>>

\* setBreakPointsRequest up to the openTextDocument of tryLoadSource
\* the answer without a document, were it an error response
SetBreakpointsNoDocument_Error == Ev("errorResponse", "setBreakpoints", -1, <<>>)

\* setBreakPointsRequest without a document: sendResponse(response), the
\* response having no body
SetBreakpointsNoDocument == Response("setBreakpoints")

\* the armed breakpoints after a request without a document, were the list of
\* the requested source emptied before the document is looked at
ArmedWithoutDocument_Cleared(path) ==
    IF path = NoPath THEN breakpoints ELSE MapSet(breakpoints, DocUri(path), <<>>)

\* the armed breakpoints after a request without a document: the handler
\* returns before it touches this.breakpoints
ArmedWithoutDocument(path) == breakpoints

SetBreakPointsRequest(path, bound) ==
    /\ InitDone /\ Requests < bound
    /\ IF path = NoPath
       THEN tasks' = Append(tasks, Finished(Task("setBreakpoints", "done"),
                                            <<SetBreakpointsNoDocument>>))
       ELSE tasks' = Append(tasks, [Task("setBreakpoints", "openDoc") EXCEPT
                                       !.path = path])
    /\ UNCHANGED <<session, config, race>>

\* setBreakPointsRequest from the answer of openTextDocument on; requested is
\* args.breakpoints, which the handler reads only here
SetBreakPointsResume(t, requested) ==
    /\ tasks[t].pc = "openDoc"
    /\ LET doc == tryLoadSource(tasks[t].path)
           Respond(ids) ==
               Finished(tasks[t], Append(tasks[t].hist,
                                         BodyResponse("setBreakpoints", ids)))
       IN  IF doc = <<>>
           THEN /\ tasks' = [tasks EXCEPT ![t] =
                                Finished(@, Append(@.hist, SetBreakpointsNoDocument))]
                /\ breakpoints' = ArmedWithoutDocument(tasks[t].path)
                /\ UNCHANGED setBpResp
           ELSE LET uri == doc[1]
                    locations == LocationsOf(uri)
                    bps == ResolveBps(locations, DesiredBpOffsets(requested))
                IN  /\ breakpoints' = MapSet(breakpoints, uri,
                                             ArmedAfterSet(ArmedOf(uri), bps))
                    /\ tasks' = [tasks EXCEPT ![t] = Respond(IdsOf(bps))]
                    /\ setBpResp' =
                          [u \in DOMAIN setBpResp \cup {uri} |->
                              IF u = uri THEN [t |-> t, requested |-> requested, body |-> bps]
                              ELSE setBpResp[u]]
    /\ UNCHANGED <<failureMessage, breakpointLocations, revealedCircuit, config, race>>

\* openTextDocument rejects, or the document it gives is not a Q# document:
\* tryLoadSource returns undefined and setBreakPointsRequest answers without
\* a body
OpenDocumentFails(t) ==
    /\ tasks[t].pc = "openDoc"
    /\ tasks[t].kind = "setBreakpoints"
    /\ tasks' = [tasks EXCEPT ![t] =
                    Finished(@, Append(@.hist, SetBreakpointsNoDocument))]
    /\ breakpoints' = ArmedWithoutDocument(tasks[t].path)
    /\ UNCHANGED <<failureMessage, breakpointLocations, revealedCircuit, setBpResp,
                   config, race>>

-----------------------------------------------------------------------------
(* breakpointLocationsRequest.  Its arguments are [line, column, endLine,  *)
(* endColumn], each of the last three <<>> when absent.                    *)

\* !args.column, !args.endLine, !args.endColumn : absent or 0
Absent(arg) == arg = <<>> \/ arg = <<0>>

\* requestRange of breakpointLocationsRequest
RequestRange(args) ==
    LET lineRange == LineRange(convertClientLineToDebugger(args.line))
        startLine == lineRange.start[1]
        startCol == IF Absent(args.column) THEN lineRange.start[2]
                    ELSE convertClientColumnToDebugger(args.column[1])
        endLine == IF Absent(args.endLine) THEN lineRange.end[1]
                   ELSE convertClientLineToDebugger(args.endLine[1])
        endCol == IF Absent(args.endColumn) THEN lineRange.end[2]
                  ELSE convertClientColumnToDebugger(args.endColumn[1])
    IN  Range(<<startLine, startCol>>, <<endLine, endCol>>)

\* the filter, were it the column test of setBreakPointsRequest
LocationFilter_RangeContainsStart(bp, args) ==
    IF Absent(args.column)
    THEN bp.range.start[1] = RequestRange(args).start[1]
    ELSE RangeContains(bp.range, RequestRange(args).start)

\* the filter of breakpointLocationsRequest
LocationFilter(bp, args) ==
    IF Absent(args.column)
    THEN bp.range.start[1] = RequestRange(args).start[1]
    ELSE RangeContains(RequestRange(args), bp.range.start)

\* response.body.breakpoints of breakpointLocationsRequest; doc is what
\* tryLoadSource gave
BreakpointLocations(doc, args) ==
    IF doc = <<>> \/ convertClientLineToDebugger(args.line) >= DocLineCount
    THEN <<>>
    ELSE LET Keep(bp) == LocationFilter(bp, args)
             bps == SelectSeq(LocationsOf(doc[1]), Keep)
         IN  [k \in 1..Len(bps) |-> bps[k].uiLocation]

\* the arguments of the breakpointLocations requests: the range runs forward
\* and starts inside the text of its line
BreakpointLocationsArgs ==
    LET Opt(S) == {<<>>} \cup {<<x>> : x \in S}
        ends(a) == <<IF a.endLine = <<>> THEN a.line ELSE a.endLine[1],
                     IF a.endColumn = <<>> THEN LineLen + 1 ELSE a.endColumn[1]>>
        begins(a) == <<a.line, IF a.column = <<>> THEN 1 ELSE a.column[1]>>
    IN  {a \in [line : 1..(DocLineCount + 1), column : Opt(1..(LineLen + 1)),
                endLine : Opt(1..DocLineCount), endColumn : Opt(1..(LineLen + 1))] :
            PosLE(begins(a), ends(a))}

\* breakpointLocationsRequest up to the openTextDocument of tryLoadSource
BreakpointLocationsRequest(path, bound) ==
    /\ InitDone /\ Requests < bound
    /\ IF path = NoPath
       THEN tasks' = Append(tasks, Finished(Task("breakpointLocations", "done"),
                                   <<BodyResponse("breakpointLocations", <<>>)>>))
       ELSE tasks' = Append(tasks, [Task("breakpointLocations", "openLocDoc") EXCEPT
                                       !.path = path])
    /\ UNCHANGED <<session, config, race>>

\* breakpointLocationsRequest from the answer of openTextDocument on; args
\* are the request's arguments, which the handler reads only here
BreakpointLocationsResume(t, args) ==
    /\ tasks[t].pc = "openLocDoc"
    /\ LET bls == BreakpointLocations(tryLoadSource(tasks[t].path), args)
       IN  tasks' = [tasks EXCEPT ![t] =
                        Finished(@, <<Ev("request", "breakpointLocations", 0, <<args>>),
                                      BodyResponse("breakpointLocations", bls)>>)]
    /\ UNCHANGED <<session, config, race>>

-----------------------------------------------------------------------------
(* stackTraceRequest.                                                      *)

\* basename(vscode.Uri.parse(uri).path)
basename(uri) == IF uri = UriA THEN "a.qs" ELSE "b.qs"

\* the frames the engine may report
EngineFrames ==
    {[name |-> name,
      location |-> [source |-> uri,
                    span |-> [start |-> <<line, 0>>, end |-> <<line, LineLen>>]]] :
        name \in {"Main", "Op"}, uri \in {UriA}, line \in 0..(DocLineCount - 1)}

\* what getStackFrames may answer: the innermost frame last
FrameLists == UNION {[1..n -> EngineFrames] : n \in 0..MaxFrames}

\* the map callback of stackTraceRequest: (f, id) to a DebugProtocol.StackFrame
MapFrame(f, id) ==
    [id |-> id, name |-> f.name,
     source |-> [name |-> basename(f.location.source), path |-> f.location.source],
     line |-> convertDebuggerLineToClient(f.location.span.start[1]),
     column |-> convertDebuggerColumnToClient(f.location.span.start[2]),
     endLine |-> convertDebuggerLineToClient(f.location.span.end[1]),
     endColumn |-> convertDebuggerColumnToClient(f.location.span.end[2])]

\* the entry frame, were its id one that no engine frame has
EntryFrame_OwnId ==
    [id |-> -1, name |-> "entry", source |-> [name |-> "", path |-> NoPath],
     line |-> 0, column |-> 0, endLine |-> 0, endColumn |-> 0]

\* new StackFrame(0, "entry", undefined)
EntryFrame ==
    [id |-> 0, name |-> "entry", source |-> [name |-> "", path |-> NoPath],
     line |-> 0, column |-> 0, endLine |-> 0, endColumn |-> 0]

\* Array.prototype.reverse
Reverse(q) == [k \in 1..Len(q) |-> q[Len(q) + 1 - k]]

\* the body, were the mapped frames left in the engine's order
StackTraceBody_EngineOrder(debuggerStackFrames) ==
    LET mappedStackFrames ==
            [k \in 1..Len(debuggerStackFrames) |-> MapFrame(debuggerStackFrames[k], k - 1)]
        stackFrames == Append(mappedStackFrames, EntryFrame)
    IN  [stackFrames |-> stackFrames, totalFrames |-> Len(stackFrames)]

\* response.body of stackTraceRequest for the frames the engine reported
StackTraceBody(debuggerStackFrames) ==
    LET mappedStackFrames ==
            [k \in 1..Len(debuggerStackFrames) |-> MapFrame(debuggerStackFrames[k], k - 1)]
        stackFrames == Append(Reverse(mappedStackFrames), EntryFrame)
    IN  [stackFrames |-> stackFrames, totalFrames |-> Len(stackFrames)]

\* stackTraceRequest up to its getStackFrames call
StackTraceRequest ==
    /\ InitDone /\ Requests < MaxStackRequests
    /\ tasks' = Append(tasks, Step(Task("stackTrace", "frames"),
                                   <<Call("getStackFrames", <<>>)>>))
    /\ UNCHANGED <<session, config, race>>

\* getStackFrames answers: the mapping, the reversal, the entry frame and
\* the response
StackFramesReturn(t, frames) ==
    /\ tasks[t].pc = "frames"
    /\ LET body == StackTraceBody(frames)
       IN  tasks' = [tasks EXCEPT ![t] =
                        Finished(@, @.hist \o
                            <<Ev("return", "getStackFrames", 0, frames),
                              Ev("response", "stackTrace", body.totalFrames,
                                 body.stackFrames)>>)]
    /\ UNCHANGED <<session, config, race>>

-----------------------------------------------------------------------------
(* The session: from construction on.                                      *)

Init ==
    /\ failureMessage = ""
    /\ breakpointLocations = <<>>
    /\ breakpoints = <<>>
    /\ showCircuit \in BOOLEAN
    /\ stopOnEntry \in BOOLEAN
    /\ revealedCircuit = FALSE
    /\ panelOpen \in BOOLEAN
    /\ engineLocs = EngineLocations
    /\ program = AllKnownSources
    /\ tasks = <<>>
    /\ setBpResp = <<>>
    /\ delayTimer = "none"
    /\ configListener = FALSE

Next ==
    \/ InitCall
    \/ \E t \in 1..Len(tasks), failure \in {"", CompileError} : LoadReturns(t, failure)
    \/ \E t \in 1..Len(tasks) : GetBreakpointsReturns(t)
    \/ \E args \in LaunchArgs : LaunchRequest(args.noDebug, args.shots, MaxRequests)
    \/ \E t \in 1..Len(tasks) : DelayElapses(t)
    \/ ConfigurationDoneRequest
    \/ \E command \in DOMAIN StepCommands : StepRequest(command, MaxRequests)
    \/ \E t \in 1..Len(tasks) : \E outcome \in Outcomes(IdsInFlight(tasks[t])) :
           StepReturns(t, outcome)
    \/ \E t \in 1..Len(tasks) : \E outcome \in Outcomes(tasks[t].bps) : ShotReturns(t, outcome)
    \/ \E t \in 1..Len(tasks) : CircuitReturns(t)
    \/ \E t \in 1..Len(tasks) : CircuitFails(t)
    \/ \E handle \in DOMAIN VariableHandles : VariablesRequest(handle)
    \/ \E t \in 1..Len(tasks), ok \in BOOLEAN : VariablesReturns(t, ok)
    \/ DisconnectRequest
    \/ \E path \in RequestPaths : SetBreakPointsRequest(path, MaxRequests)
    \/ \E t \in 1..Len(tasks), requested \in SessionRequested : SetBreakPointsResume(t, requested)
    \/ \E path \in RequestPaths : BreakpointLocationsRequest(path, MaxRequests)
    \/ \E t \in 1..Len(tasks), args \in SessionLocArgs : BreakpointLocationsResume(t, args)

Spec == Init /\ [][Next]_vars

\* the session when a timer that has been set fires in the end; nothing is
\* asked of the client or of the debug service
SpecTimer == Spec /\ WF_vars(\E t \in 1..Len(tasks) : DelayElapses(t))

-----------------------------------------------------------------------------
(* Breakpoint resolution alone: the session after a successful init, for   *)
(* every list of NumCands engine locations of a.qs, handling setBreakpoints *)
(* requests only.                                                          *)

\* the lists of engine locations of a.qs: ids 1..NumCands, any ranges
CandLists ==
    {[k \in 1..NumCands |-> [id |-> k, range |-> rs[k]]] : rs \in [1..NumCands -> CandRanges]}

InitBp ==
    /\ failureMessage = ""
    /\ \E cands \in CandLists :
          engineLocs = (UriA :> cands) @@ (UriB :> EngineLocations[UriB])
    /\ program = AllKnownSources
    /\ breakpointLocations = [u \in {UriA, UriB} |-> MapLocations(engineLocs[u])]
    /\ breakpoints = <<>>
    /\ showCircuit = FALSE
    /\ stopOnEntry = FALSE
    /\ revealedCircuit = FALSE
    /\ panelOpen = FALSE
    /\ tasks = <<Finished(Task("init", "done"),
                          <<Call("loadProgram", <<>>), Loaded(""),
                            Call("getBreakpoints", <<UriA>>),
                            Call("getBreakpoints", <<UriB>>)>>)>>
    /\ setBpResp = <<>>
    /\ delayTimer = "none"
    /\ configListener = FALSE

NextBp ==
    \/ \E path \in RequestPaths : SetBreakPointsRequest(path, MaxBpRequests)
    \/ \E t \in 1..Len(tasks), requested \in AllRequested : SetBreakPointsResume(t, requested)

SpecBp == InitBp /\ [][NextBp]_vars

-----------------------------------------------------------------------------
(* stackTrace alone: the session after a successful init, handling         *)
(* stackTrace requests only, for every list of frames of the engine.        *)

NextStack ==
    \/ StackTraceRequest
    \/ \E t \in 1..Len(tasks), frames \in FrameLists : StackFramesReturn(t, frames)

SpecStack == InitBp /\ [][NextStack]_vars

-----------------------------------------------------------------------------
(* Breakpoint locations: the session after a successful init on the        *)
(* engine locations of the session model, handling breakpointLocations and *)
(* setBreakpoints requests.                                                *)

InitLoc == InitBp /\ engineLocs = EngineLocations

NextLoc ==
    \/ \E path \in RequestPaths : BreakpointLocationsRequest(path, MaxLocRequests)
    \/ \E t \in 1..Len(tasks), args \in BreakpointLocationsArgs :
           BreakpointLocationsResume(t, args)
    \/ \E path \in RequestPaths : SetBreakPointsRequest(path, MaxLocRequests)
    \/ \E t \in 1..Len(tasks), requested \in SessionRequested :
           SetBreakPointsResume(t, requested)

SpecLoc == InitLoc /\ [][NextLoc]_vars

-----------------------------------------------------------------------------
(* Stepping with armed breakpoints: the session after a successful init,   *)
(* with the circuit off, handling setBreakpoints requests, a launch with   *)
(* debugging and step requests.                                            *)

InitStep ==
    /\ failureMessage = ""
    /\ engineLocs = EngineLocations
    /\ program = AllKnownSources
    /\ breakpointLocations = [u \in {UriA, UriB} |-> MapLocations(engineLocs[u])]
    /\ breakpoints = <<>>
    /\ showCircuit = FALSE
    /\ stopOnEntry \in BOOLEAN
    /\ revealedCircuit = FALSE
    /\ panelOpen = FALSE
    /\ tasks = <<Finished(Task("init", "done"),
                          <<Call("loadProgram", <<>>), Loaded(""),
                            Call("getBreakpoints", <<UriA>>),
                            Call("getBreakpoints", <<UriB>>)>>)>>
    /\ setBpResp = <<>>
    /\ delayTimer = "none"
    /\ configListener = FALSE

NextStep ==
    \/ \E path \in {PathA, UriB} : SetBreakPointsRequest(path, MaxStepRequests)
    \/ \E t \in 1..Len(tasks), requested \in SessionRequested : SetBreakPointsResume(t, requested)
    \/ LaunchRequest(FALSE, 1, MaxStepRequests)
    \/ \E t \in 1..Len(tasks) : DelayElapses(t)
    \/ \E command \in DOMAIN StepCommands : StepRequest(command, MaxStepRequests)
    \/ \E t \in 1..Len(tasks) : \E outcome \in Outcomes(IdsInFlight(tasks[t])) :
           StepReturns(t, outcome)

SpecStep == InitStep /\ [][NextStep]_vars

-----------------------------------------------------------------------------
(* Arming with documents that may fail to open: the session of InitStep,   *)
(* handling setBreakpoints requests for every kind of path, a launch with  *)
(* debugging and step requests.                                            *)

NextArm ==
    \/ \E path \in RequestPaths : SetBreakPointsRequest(path, MaxArmRequests)
    \/ \E t \in 1..Len(tasks), requested \in SessionRequested : SetBreakPointsResume(t, requested)
    \/ \E t \in 1..Len(tasks) : OpenDocumentFails(t)
    \/ LaunchRequest(FALSE, 1, MaxArmRequests)
    \/ \E t \in 1..Len(tasks) : DelayElapses(t)
    \/ \E command \in DOMAIN StepCommands : StepRequest(command, MaxArmRequests)
    \/ \E t \in 1..Len(tasks) : \E outcome \in Outcomes(IdsInFlight(tasks[t])) :
           StepReturns(t, outcome)

SpecArm == InitStep /\ [][NextArm]_vars

-----------------------------------------------------------------------------
(* A program with a dependency package: the session from construction on,  *)
(* handling setBreakpoints and breakpointLocations requests.  The engine   *)
(* has locations for the sources of every package.                         *)

DepEngineLocations ==
    EngineLocations
    @@ (UriDep :> <<[id |-> 4, range |-> [start |-> <<0, 0>>, end |-> <<0, 1>>]]>>)

InitDep ==
    /\ failureMessage = ""
    /\ breakpointLocations = <<>>
    /\ breakpoints = <<>>
    /\ showCircuit = FALSE
    /\ stopOnEntry = FALSE
    /\ revealedCircuit = FALSE
    /\ panelOpen = FALSE
    /\ engineLocs = DepEngineLocations
    /\ program = getAllSources
    /\ tasks = <<>>
    /\ setBpResp = <<>>
    /\ delayTimer = "none"
    /\ configListener = FALSE

DepPaths == {PathA, PathDep}

NextDep ==
    \/ InitCall
    \/ \E t \in 1..Len(tasks), failure \in {"", CompileError} : LoadReturns(t, failure)
    \/ \E t \in 1..Len(tasks) : GetBreakpointsReturns(t)
    \/ \E path \in DepPaths : SetBreakPointsRequest(path, MaxDepRequests)
    \/ \E t \in 1..Len(tasks), requested \in SessionRequested : SetBreakPointsResume(t, requested)
    \/ \E path \in DepPaths : BreakpointLocationsRequest(path, MaxDepRequests)
    \/ \E t \in 1..Len(tasks), args \in SessionLocArgs : BreakpointLocationsResume(t, args)

SpecDep == InitDep /\ [][NextDep]_vars

-----------------------------------------------------------------------------
(* Requests that name a candidate twice: the session of InitStep, handling *)
(* setBreakpoints requests of up to two breakpoints, a launch with         *)
(* debugging and step requests.                                            *)

\* args.breakpoints: a line breakpoint and a column breakpoint of line 1
\* (both on the first statement of a.qs), the same line breakpoint twice
DupRequested ==
    {<<[line |-> 1, column |-> <<>>]>>,
     <<[line |-> 1, column |-> <<1>>], [line |-> 1, column |-> <<>>]>>,
     <<[line |-> 2, column |-> <<>>], [line |-> 2, column |-> <<>>]>>}

NextDup ==
    \/ \E path \in {PathA, UriB} : SetBreakPointsRequest(path, MaxDupRequests)
    \/ \E t \in 1..Len(tasks), requested \in DupRequested : SetBreakPointsResume(t, requested)
    \/ LaunchRequest(FALSE, 1, MaxDupRequests)
    \/ \E t \in 1..Len(tasks) : DelayElapses(t)
    \/ \E command \in DOMAIN StepCommands : StepRequest(command, MaxDupRequests)
    \/ \E t \in 1..Len(tasks) : \E outcome \in Outcomes(IdsInFlight(tasks[t])) :
           StepReturns(t, outcome)

SpecDup == InitStep /\ [][NextDup]_vars

-----------------------------------------------------------------------------
(* Source resolution alone: the session as constructed for every program   *)
(* of up to MaxSources sources, with asUri applied to the texts a client   *)
(* may send.                                                               *)

\* the file "a b.qs" and the file "a%20b.qs", as source names and as paths
UriC == <<"file:", "//", "/a", "%20", "b.qs">>
UriD == <<"file:", "//", "/a", "%2520", "b.qs">>
PathC == <<"/a", " ", "b.qs">>
PathD == <<"/a", "%20", "b.qs">>

SourceNames == {UriA, UriB, UriC, UriD}

\* what a client may send as source.path: the name of a source, or a path
UriInputs == SourceNames \cup {PathA, <<"/b.qs">>, PathC, PathD, PathUnknown}

InitUri ==
    /\ failureMessage = ""
    /\ breakpointLocations = <<>>
    /\ breakpoints = <<>>
    /\ showCircuit = FALSE
    /\ stopOnEntry = FALSE
    /\ revealedCircuit = FALSE
    /\ panelOpen = FALSE
    /\ engineLocs = EngineLocations
    /\ program \in SeqsUpTo(SourceNames, MaxSources)
    /\ tasks = <<>>
    /\ setBpResp = <<>>
    /\ delayTimer = "none"
    /\ configListener = FALSE

\* asUri(pathOrUri) is called and returns
AsUriCall(pathOrUri) ==
    /\ Len(tasks) < MaxUriCalls
    /\ tasks' = Append(tasks, Finished([Task("asUri", "done") EXCEPT !.path = pathOrUri],
                                       <<Ev("return", "asUri", 0, <<asUri(pathOrUri)>>)>>))
    /\ UNCHANGED <<session, config, race>>

NextUri == \E pathOrUri \in UriInputs : AsUriCall(pathOrUri)

SpecUri == InitUri /\ [][NextUri]_vars

-----------------------------------------------------------------------------
(* Vocabulary of the properties.                                           *)

TaskIds == 1..Len(tasks)
Uris == {UriA, UriB}

RECURSIVE Concat(_)
Concat(ss) == IF ss = <<>> THEN <<>> ELSE Head(ss) \o Concat(Tail(ss))

\* the ids of the engine's locations of uri that satisfy P, in the engine's order
IdsWhere(locs, P(_)) ==
    LET kept == SelectSeq(locs, P) IN [k \in 1..Len(kept) |-> kept[k].id]

\* the engine location of uri with this id
LocationWithId(uri, id) ==
    CHOOSE loc \in SeqRange(engineLocs[uri]) : loc.id = id

AllWithoutColumn(requested) == \A k \in 1..Len(requested) : requested[k].column = <<>>
AllWithColumn(requested) == \A k \in 1..Len(requested) : requested[k].column # <<>>
LineInside(sbp) == sbp.line >= 1 /\ sbp.line <= DocLineCount

-----------------------------------------------------------------------------
(* C1: the armed breakpoints of a source are exactly the breakpoints the   *)
(* last setBreakpoints request that resolved to that source answered with; *)
(* a source no request resolved to has no armed breakpoints.  Nothing an   *)
(* earlier request armed stays, and a request for one source leaves the    *)
(* armed breakpoints of the others as their own last request left them.    *)
C1_ArmedIsLastResolved ==
    \A u \in Uris :
        IF u \in DOMAIN setBpResp
        THEN MapHas(breakpoints, u) /\ MapGet(breakpoints, u) = setBpResp[u].body
        ELSE ~MapHas(breakpoints, u)

\* two requests resolved to a.qs, the first armed something, and the second
\* answered with something else while b.qs stayed armed
C1_Witness ==
    \E t1, t2 \in TaskIds :
        /\ t1 # t2
        /\ tasks[t1].kind = "setBreakpoints" /\ tasks[t1].pc = "done"
        /\ tasks[t2].kind = "setBreakpoints" /\ tasks[t2].pc = "done"
        /\ DocUri(tasks[t1].path) = UriA /\ DocUri(tasks[t2].path) = UriA
        /\ UriA \in DOMAIN setBpResp /\ setBpResp[UriA].t = t2
        /\ tasks[t1].hist[1].ids # <<>>
        /\ tasks[t1].hist[1].ids # tasks[t2].hist[1].ids
        /\ IdsOf(ArmedOf(UriA)) = tasks[t2].hist[1].ids

-----------------------------------------------------------------------------
(* C2: a setBreakpoints request whose breakpoints all have no column and a *)
(* line inside the document is answered with, for each requested           *)
(* breakpoint in turn, exactly the engine's locations of that source whose *)
(* client start line is the requested line, all of them, in the engine's   *)
(* order, each with that line as its line.                                 *)
StartsOnLine(uri, line) ==
    IdsWhere(engineLocs[uri], LAMBDA loc : loc.range.start[1] + 1 = line)

-----------------------------------------------------------------------------
(* C3 as the specification states it: a setBreakpoints request with one    *)
(* requested breakpoint that has a column is answered only with locations  *)
(* whose start point lies in the target range, from the requested line and *)
(* column to the end of that line, and with no location that starts        *)
(* outside that range.                                                     *)
TargetRange(sbp) == DesiredBpOffset(sbp).range

C3_StartInTargetRange ==
    \A u \in DOMAIN setBpResp :
        LET r == setBpResp[u]
        IN  (Len(r.requested) = 1 /\ AllWithColumn(r.requested) /\ LineInside(r.requested[1]))
            => \A j \in 1..Len(r.body) :
                  RangeContains(TargetRange(r.requested[1]),
                                LocationWithId(u, r.body[j].id).range.start)

(* C3, amended: a setBreakpoints request whose breakpoints all have a      *)
(* column and a line inside the document is answered with, for each        *)
(* requested breakpoint in turn, exactly the engine's locations whose      *)
(* client start line is the requested line and whose range contains the    *)
(* start point of the target range: the requested line and column, or the  *)
(* end of that line when the column lies beyond it.                        *)
TargetStart(sbp) ==
    LET asked == <<sbp.line - 1, sbp.column[1] - 1>>
        lineEnd == <<sbp.line - 1, LineLen>>
    IN  IF PosLE(asked, lineEnd) THEN asked ELSE lineEnd

SpansTargetStart(uri, sbp) ==
    IdsWhere(engineLocs[uri],
             LAMBDA loc : /\ loc.range.start[1] + 1 = sbp.line
                          /\ PosLE(loc.range.start, TargetStart(sbp))
                          /\ PosLE(TargetStart(sbp), loc.range.end))

C3_RangeContainsTargetStart ==
    \A u \in DOMAIN setBpResp :
        LET r == setBpResp[u]
        IN  (AllWithColumn(r.requested) /\ \A k \in 1..Len(r.requested) : LineInside(r.requested[k]))
            => IdsOf(r.body) =
                  Concat([k \in 1..Len(r.requested) |-> SpansTargetStart(u, r.requested[k])])

\* a breakpoint with a column resolved to a location that starts before the
\* column, outside the target range
C3_Witness ==
    \E u \in DOMAIN setBpResp :
        LET r == setBpResp[u]
        IN  /\ Len(r.requested) = 1 /\ AllWithColumn(r.requested)
            /\ LineInside(r.requested[1])
            /\ Len(r.body) = 1
            /\ ~RangeContains(TargetRange(r.requested[1]),
                              LocationWithId(u, r.body[1].id).range.start)


-----------------------------------------------------------------------------
(* Vocabulary of the properties of a handler's history.                    *)

IsOutcome(x) == x.e \in {"stopped", "terminated", "exited", "errorResponse"}
IsReturn(x) == x.e = "return"
IsExited(x) == x.e = "exited"
IsFinishedShot(x) == x.e = "console" /\ x.a = FinishedShot
IsReload(x) == x.e = "call" /\ x.a = "loadProgram"
IsContinuation(x) == x.e = "call" /\ x.a = "evalContinue"
IsUpdate(x) == x.e = "updateCircuit"

OutcomeOf(h) == SelectSeq(h, IsOutcome)
ReturnsOf(h) == SelectSeq(h, IsReturn)
After(h, j) == SubSeq(h, j + 1, Len(h))
Before(h, j) == SubSeq(h, 1, j - 1)

\* the handler has returned or rejected
Over(t) == tasks[t].pc \in {"done", "rejected"}

\* a step request, or the first step of a launch with debugging
InteractiveStep(t) ==
    \/ tasks[t].kind \in DOMAIN StepCommands
    \/ tasks[t].kind = "launch" /\ ~tasks[t].noDebug

\* a launch without debugging that got as far as its response
NoDebugRun(t) ==
    /\ tasks[t].kind = "launch" /\ tasks[t].noDebug
    /\ \E j \in 1..Len(tasks[t].hist) : tasks[t].hist[j] = Response("launch")

AllCompleted(r) == \A i \in 1..Len(r) : r[i].a = "Return"

\* the index in h of its k-th engine answer
ReturnIndex(h, k) ==
    CHOOSE j \in 1..Len(h) : IsReturn(h[j]) /\ Len(ReturnsOf(Before(h, j))) = k - 1

-----------------------------------------------------------------------------
(* C4 *)

ExpectedOutcome(r) ==
    IF r.a = "BreakpointHit" THEN <<Ev("stopped", "breakpoint", 0, <<r.n>>)>>
    ELSE IF r.a = "Next" THEN <<Ev("stopped", "step", 0, <<>>)>>
    ELSE IF r.a = "Return" THEN <<Ev("terminated", "", 0, <<>>), Ev("exited", "", 0, <<>>)>>
    ELSE <<Ev("terminated", "", 0, <<>>), Ev("exited", "", 1, <<>>)>>

\* C4: every interactive step whose engine call finished has, once its
\* handler is over, raised exactly the outcome of the engine's answer: one
\* stopped event (breakpoint with the hit id, or step) and no terminated
\* event, or terminated then exited (0 on Completed, 1 on a fault) with no
\* stopped event and no error response.
C4_OneOutcomePerStep ==
    \A t \in TaskIds :
        (InteractiveStep(t) /\ Over(t) /\ ReturnsOf(tasks[t].hist) # <<>>)
            => OutcomeOf(tasks[t].hist) = ExpectedOutcome(ReturnsOf(tasks[t].hist)[1])

-----------------------------------------------------------------------------
(* C5 *)

\* C5: after a fault of a step's or a shot's engine call, exactly one
\* visualization update is triggered, it carries the fault, and it is
\* triggered before the terminated event.
C5_OneUpdateOnFault ==
    \A t \in TaskIds :
        LET h == tasks[t].hist
        IN  \A j \in 1..Len(h) :
                (IsReturn(h[j]) /\ h[j].a = "Fault") =>
                    /\ SelectSeq(After(h, j), IsUpdate) = <<Ev("updateCircuit", "error", 0, <<>>)>>
                    /\ \A m \in (j + 1)..Len(h) :
                           h[m].e = "terminated" =>
                               \E u \in (j + 1)..(m - 1) : IsUpdate(h[u])

C5_Witness ==
    \E t \in TaskIds :
        LET h == tasks[t].hist
        IN  \E j \in 1..Len(h) : \E m \in (j + 1)..Len(h) :
                /\ IsReturn(h[j]) /\ h[j].a = "Fault"
                /\ h[m].e = "terminated"
                /\ \E u \in (j + 1)..(m - 1) : IsUpdate(h[u]) /\ h[u].a = "error"

-----------------------------------------------------------------------------
(* C6 *)

\* C6: between an answer of the engine and any later stopped, terminated or
\* exited event of the same handler, a visualization update has completed.
C6_UpdateBeforeEvent ==
    \A t \in TaskIds :
        LET h == tasks[t].hist
        IN  \A j \in 1..Len(h) : \A i \in 1..(j - 1) :
                (h[j].e \in {"stopped", "terminated", "exited"} /\ IsReturn(h[i]))
                    => \E m \in (i + 1)..(j - 1) : h[m].e = "updated"

C6_Witness ==
    \E t \in TaskIds :
        LET h == tasks[t].hist
        IN  \E j \in 1..Len(h) : \E i \in 1..(j - 1) : \E m \in (i + 1)..(j - 1) :
                /\ h[j].e = "stopped" /\ IsReturn(h[i])
                /\ h[m] = Ev("updated", "panel", 0, <<>>)

-----------------------------------------------------------------------------
(* C7 *)

\* C7: a run without debugging whose shots 1..k-1 returned Completed and
\* whose shot k returned another result has, once over, reported "Finished
\* shot i" once for each i < k in increasing order and for no other i, made
\* no continuation call after shot k, and raised terminated then exited
\* with a negative code.
C7_AbortOnIncompleteShot ==
    \A t \in TaskIds :
        LET h == tasks[t].hist
            r == ReturnsOf(h)
            k == Len(r)
        IN  (/\ NoDebugRun(t) /\ Over(t) /\ k >= 1
             /\ AllCompleted(Before(r, k))
             /\ r[k].a \notin {"Return", "Fault"})
            => /\ SelectSeq(h, IsFinishedShot) = [i \in 1..(k - 1) |-> Console(FinishedShot, i)]
               /\ SelectSeq(After(h, ReturnIndex(h, k)), IsContinuation) = <<>>
               /\ Len(OutcomeOf(h)) = 2
               /\ OutcomeOf(h)[1].e = "terminated"
               /\ OutcomeOf(h)[2].e = "exited" /\ OutcomeOf(h)[2].n < 0

-----------------------------------------------------------------------------
(* C8 *)

\* C8: a run without debugging that is over raised exactly one exited
\* event: code 0 if all its shots returned Completed, a negative code if
\* some shot returned another result, 1 if a shot's call raised a fault; in
\* the two failure cases no continuation call follows the failing shot.
C8_ExitCodeOfRun ==
    \A t \in TaskIds :
        LET h == tasks[t].hist
            r == ReturnsOf(h)
            exits == SelectSeq(h, IsExited)
        IN  (NoDebugRun(t) /\ Over(t))
            => /\ Len(exits) = 1
               /\ (Len(r) = tasks[t].shots /\ AllCompleted(r)) => exits[1].n = 0
               /\ \A i \in 1..Len(r) :
                      /\ r[i].a \notin {"Return", "Fault"} => exits[1].n < 0
                      /\ r[i].a = "Fault" => exits[1].n = 1
                      /\ r[i].a # "Return" =>
                             SelectSeq(After(h, ReturnIndex(h, i)), IsContinuation) = <<>>

-----------------------------------------------------------------------------
(* C9 *)

\* C9: in a run without debugging of N >= 1 shots no loadProgram call
\* follows the answer of shot N, and a run that is over and whose N shots
\* all returned Completed made exactly N-1 loadProgram calls.
C9_NoReloadAfterLastShot ==
    \A t \in TaskIds :
        LET h == tasks[t].hist
            r == ReturnsOf(h)
            N == tasks[t].shots
        IN  (NoDebugRun(t) /\ N >= 1)
            => /\ \A j \in 1..Len(h) :
                      IsReload(h[j]) => Len(ReturnsOf(Before(h, j))) < N
               /\ (Over(t) /\ Len(r) = N /\ AllCompleted(r))
                      => Len(SelectSeq(h, IsReload)) = N - 1

-----------------------------------------------------------------------------
(* C10 *)

\* C10: a launch request that arrives when the failure message is not
\* empty is answered at once with the failure on the console and an error
\* response, and is over: it waits for nothing, calls the engine never and
\* raises no stopped, terminated or exited event; a handler that is over
\* does nothing more.
C10_FailedLoadStopsLaunch ==
    [][/\ \A t \in 1..Len(tasks') :
              (t > Len(tasks) /\ tasks'[t].kind = "launch" /\ failureMessage # "")
                  => /\ tasks'[t].pc = "done"
                     /\ tasks'[t].hist =
                            <<Console(failureMessage, 0),
                              Ev("errorResponse", ErrorProgramHasErrors, -1, <<>>)>>
       /\ \A t \in 1..Len(tasks) : Over(t) => tasks'[t] = tasks[t]]_vars

C10_Witness ==
    \E t \in TaskIds :
        /\ tasks[t].kind = "launch" /\ tasks[t].pc = "done"
        /\ failureMessage # ""
        /\ tasks[t].hist = <<Console(failureMessage, 0),
                             Ev("errorResponse", ErrorProgramHasErrors, -1, <<>>)>>

-----------------------------------------------------------------------------
(* C11 *)

IsLaunchResponse(x) == x = Response("launch")
IsStepCall(x) == x.e = "call" /\ x.a \in {StepCommands[c] : c \in DOMAIN StepCommands}

\* a launch of a successfully loaded program: launchRequest reached its race
AwaitedLaunch(t) ==
    /\ tasks[t].kind = "launch"
    /\ ~(tasks[t].hist # <<>> /\ tasks[t].hist[1].e = "console")

\* the timer has fired, or the listener has been called and removed
RaceResolved == delayTimer = "fired" \/ ~configListener

\* C11: a launch of a loaded program has sent nothing and called nothing
\* before the first of the configurationDone signal and the timer; from then
\* on, whether one or both have occurred, it has sent exactly one launch
\* response, first of all, and has begun execution once: one step call with
\* debugging, at most args.shots continuation calls without.
C11_LaunchProceedsOnce ==
    \A t \in TaskIds :
        AwaitedLaunch(t) =>
            LET h == tasks[t].hist
            IN  IF ~RaceResolved
                THEN tasks[t].pc = "waitConfig" /\ h = <<>>
                ELSE /\ Len(SelectSeq(h, IsLaunchResponse)) = 1
                     /\ IsLaunchResponse(h[1])
                     /\ IF tasks[t].noDebug
                        THEN Len(SelectSeq(h, IsStepCall)) <= tasks[t].shots
                        ELSE Len(SelectSeq(h, IsStepCall)) = 1

\* both the signal and the timer have occurred, and the launch has gone on
C11_Witness ==
    \E t \in TaskIds :
        /\ AwaitedLaunch(t)
        /\ delayTimer = "fired" /\ ~configListener
        /\ Len(SelectSeq(tasks[t].hist, IsLaunchResponse)) = 1
        /\ Len(SelectSeq(tasks[t].hist, IsStepCall)) = 1

-----------------------------------------------------------------------------
(* C12 *)

LaunchAwaited == \E t \in TaskIds : AwaitedLaunch(t)

ResponseSent(t) == SelectSeq(tasks[t].hist, IsLaunchResponse) # <<>>
EngineCalled(t) == SelectSeq(tasks[t].hist, IsStepCall) # <<>>

\* C12 as stated: once launchRequest of a loaded program is received, the
\* launch response is sent and a first engine call is issued in the end, if
\* only the timer fires.
C12_LaunchResponseAndEngineCall ==
    LaunchAwaited ~> (\E t \in TaskIds : AwaitedLaunch(t) /\ ResponseSent(t) /\ EngineCalled(t))

\* a run without debugging of no shots has no engine call to make
NothingToRun(t) == tasks[t].noDebug /\ tasks[t].shots = 0

\* C12, amended: once launchRequest of a loaded program is received, the
\* launch response is sent in the end, if only the timer fires, and with it
\* the first engine call is issued, unless the launch is a run without
\* debugging of zero shots, which ends the session without any engine call.
C12_LaunchResponseInTheEnd ==
    LaunchAwaited ~>
        (\E t \in TaskIds :
            /\ AwaitedLaunch(t) /\ ResponseSent(t)
            /\ IF NothingToRun(t)
               THEN ~EngineCalled(t) /\ OutcomeOf(tasks[t].hist) =
                        <<Ev("terminated", "", 0, <<>>), Ev("exited", "", 0, <<>>)>>
               ELSE EngineCalled(t))

\* the timer made the launch go on while the listener still waits
C12_Witness ==
    \E t \in TaskIds :
        /\ AwaitedLaunch(t) /\ delayTimer = "fired" /\ configListener
        /\ ResponseSent(t) /\ EngineCalled(t)

-----------------------------------------------------------------------------
(* C13 *)

IsLifecycleEvent(x) == x.e \in {"stopped", "terminated", "exited"}

\* the stopped, terminated and exited events task t of ts has raised
LifecycleEvents(ts, t) ==
    IF t <= Len(ts) THEN SelectSeq(ts[t].hist, IsLifecycleEvent) ELSE <<>>

TerminatedRaised ==
    \E t \in TaskIds : \E j \in 1..Len(tasks[t].hist) : tasks[t].hist[j].e = "terminated"

\* C13: once a terminated event has been raised, no step of the session,
\* whatever the client requests, raises a stopped event or another
\* terminated or exited event.
C13_TerminatedIsAbsorbing ==
    [][TerminatedRaised =>
          \A t \in 1..Len(tasks') : LifecycleEvents(tasks', t) = LifecycleEvents(tasks, t)]_vars

-----------------------------------------------------------------------------
(* C14 *)

IsEvent(x) == x.e \in {"stopped", "terminated", "exited", "console"}

\* the events task t of ts has raised
EventsOf(ts, t) == IF t <= Len(ts) THEN SelectSeq(ts[t].hist, IsEvent) ELSE <<>>

DisconnectAnswered ==
    \E t \in TaskIds : tasks[t].kind = "disconnect" /\ tasks[t].pc = "done"

\* C14: disconnectRequest makes one terminate call and then sends its
\* response, without a wait between them; once that response is sent no step
\* of the session raises an event, in whatever state the disconnect found
\* the other handlers.
C14_NoEventAfterDisconnect ==
    [][/\ \A t \in 1..Len(tasks') :
              tasks'[t].kind = "disconnect" =>
                  /\ tasks'[t].pc = "done"
                  /\ tasks'[t].hist = <<Call("terminate", <<>>), Response("disconnect")>>
       /\ DisconnectAnswered =>
              \A t \in 1..Len(tasks') : EventsOf(tasks', t) = EventsOf(tasks, t)]_vars

-----------------------------------------------------------------------------
(* C15 *)

\* the handlers of ts suspended on an engine step or continuation call
StepCallsInFlight(ts) == {t \in 1..Len(ts) : ts[t].pc \in {"evalStep", "shotEval"}}

\* C15: no request is handled while a handler is suspended on an engine step
\* or continuation call, and at most one such call is in flight at any
\* moment.
C15_OneStepCallInFlight ==
    [][/\ Len(tasks') > Len(tasks) => StepCallsInFlight(tasks) = {}
       /\ Cardinality(StepCallsInFlight(tasks')) <= 1]_vars

-----------------------------------------------------------------------------
(* C16 *)

\* the panel updates of the tasks ts, each as <<task, index in its history>>
PanelUpdates(ts) ==
    UNION {{<<t, j>> : j \in {i \in 1..Len(ts[t].hist) : ts[t].hist[i].e = "panel"}} :
               t \in 1..Len(ts)}

\* C16: every step sends at most one panel update, and a panel update is
\* sent with reveal = true exactly if no panel update was sent before it in
\* the session: the first one reveals, no later one does.
C16_OnlyFirstUpdateReveals ==
    [][LET new == PanelUpdates(tasks') \ PanelUpdates(tasks)
       IN  /\ Cardinality(new) <= 1
           /\ \A x \in new :
                  (tasks'[x[1]].hist[x[2]].n = 1) <=> (PanelUpdates(tasks) = {})]_vars

\* two panel updates have been sent, the one revealing and the other not
C16_Witness ==
    \E x, y \in PanelUpdates(tasks) :
        tasks[x[1]].hist[x[2]].n = 1 /\ tasks[y[1]].hist[y[2]].n = 0

-----------------------------------------------------------------------------
(* C17 *)

IsUpdated(x) == x.e = "updated"
IsVariablesResponse(x) == x.e = "response" /\ x.a = "variables"

\* C17: a variables request for the circuit scope handled while showCircuit
\* is off turns it on and calls updateCircuit() at once; when its response is
\* sent, exactly one visualization update has been made by it, before the
\* response; and no step of the session turns showCircuit off.
C17_CircuitScopeTurnsOn ==
    [][/\ showCircuit => showCircuit'
       /\ \A t \in 1..Len(tasks') :
              (t > Len(tasks) /\ tasks'[t].kind = "variables"
                   /\ tasks'[t].handle = "circuit" /\ ~showCircuit)
                  => /\ showCircuit'
                     /\ tasks'[t].hist # <<>> /\ IsUpdate(tasks'[t].hist[1])
                     /\ SelectSeq(tasks'[t].hist, IsVariablesResponse) = <<>>
       /\ \A t \in 1..Len(tasks') :
              LET h == tasks'[t].hist
              IN  (/\ tasks'[t].kind = "variables" /\ tasks'[t].handle = "circuit"
                   /\ h # <<>> /\ IsUpdate(h[1]) /\ IsVariablesResponse(h[Len(h)]))
                      => /\ Len(SelectSeq(h, IsUpdate)) = 1
                         /\ Len(SelectSeq(h, IsUpdated)) = 1
                         /\ showCircuit']_vars

\* the circuit scope was asked for with showCircuit off, and was answered
C17_Witness ==
    \E t \in TaskIds :
        LET h == tasks[t].hist
        IN  /\ tasks[t].kind = "variables" /\ tasks[t].handle = "circuit"
            /\ h # <<>> /\ IsUpdate(h[1]) /\ IsVariablesResponse(h[Len(h)])
            /\ showCircuit

-----------------------------------------------------------------------------
(* C18 *)

\* the answered stackTrace requests: the engine's frames and the response
StackTraces ==
    {[frames |-> tasks[t].hist[2].ids, response |-> tasks[t].hist[3]] :
        t \in {u \in TaskIds : tasks[u].kind = "stackTrace" /\ tasks[u].pc = "done"}}

\* C18: for engine frames f_0..f_{n-1} the stackTrace response lists the
\* client frames of f_{n-1}, ..., f_0 in that order, then one frame named
\* "entry" as its last element and no other such frame, and totalFrames is
\* n + 1.
C18_InnermostFirstThenEntry ==
    \A st \in StackTraces :
        LET f == st.frames
            n == Len(f)
            out == st.response.ids
        IN  /\ Len(out) = n + 1
            /\ st.response.n = n + 1
            /\ \A k \in 1..n :
                   /\ out[k].name = f[n + 1 - k].name
                   /\ out[k].source.path = f[n + 1 - k].location.source
                   /\ out[k].line = f[n + 1 - k].location.span.start[1] + 1
                   /\ out[k].column = f[n + 1 - k].location.span.start[2] + 1
                   /\ out[k].endLine = f[n + 1 - k].location.span.end[1] + 1
                   /\ out[k].endColumn = f[n + 1 - k].location.span.end[2] + 1
                   /\ out[k].id = n - k
            /\ out[n + 1].name = "entry"
            /\ \A k \in 1..n : out[k].name # "entry"

\* a stack of two different frames has been answered
C18_Witness ==
    \E st \in StackTraces :
        /\ Len(st.frames) = 2 /\ st.frames[1] # st.frames[2]
        /\ st.response.ids[1].name = st.frames[2].name
        /\ st.response.ids[3].name = "entry"

-----------------------------------------------------------------------------
(* C19 *)

\* the answered breakpointLocations requests of ts on a resolved source
LocationQueries(ts) ==
    {[uri |-> DocUri(ts[t].path), args |-> ts[t].hist[1].ids[1],
      bls |-> ts[t].hist[2].ids] :
        t \in {u \in 1..Len(ts) :
                  /\ ts[u].kind = "breakpointLocations" /\ ts[u].pc = "done"
                  /\ Len(ts[u].hist) = 2
                  /\ DocUri(ts[u].path) \in OpenableDocs}}

\* the client range of an engine location
ClientRange(loc) ==
    [line |-> loc.range.start[1] + 1, column |-> loc.range.start[2] + 1,
     endLine |-> loc.range.end[1] + 1, endColumn |-> loc.range.end[2] + 1]

\* the candidates the statement names for a query: by start line without a
\* column; with one, by their start point lying between (line, column) and
\* (endLine or line, endColumn or the end of the line)
Named(args, loc) ==
    IF args.column = <<>>
    THEN loc.range.start[1] + 1 = args.line
    ELSE LET lo == <<args.line, args.column[1]>>
             hi == <<IF args.endLine = <<>> THEN args.line ELSE args.endLine[1],
                     IF args.endColumn = <<>> THEN LineLen + 1 ELSE args.endColumn[1]>>
             p == <<loc.range.start[1] + 1, loc.range.start[2] + 1>>
         IN  PosLE(lo, p) /\ PosLE(p, hi)

\* the client ranges of the named candidates, in the engine's order
NamedRanges(q) ==
    LET Keep(loc) == q.args.line <= DocLineCount /\ Named(q.args, loc)
        kept == SelectSeq(engineLocs[q.uri], Keep)
    IN  [k \in 1..Len(kept) |-> ClientRange(kept[k])]

\* what setBreakPointsRequest resolves for one breakpoint at the query's line
\* and column, as client ranges
ResolvedRanges(q) ==
    LET bps == ResolveBps(LocationsOf(q.uri),
                          DesiredBpOffsets(<<[line |-> q.args.line,
                                              column |-> q.args.column]>>))
    IN  [k \in 1..Len(bps) |->
            [line |-> bps[k].line, column |-> bps[k].column,
             endLine |-> bps[k].endLine, endColumn |-> bps[k].endColumn]]

\* the step handles a breakpointLocations request, or resumes one
LocationsStep ==
    \E t \in 1..Len(tasks') :
        /\ tasks'[t].kind = "breakpointLocations"
        /\ (t > Len(tasks) \/ tasks'[t] # tasks[t])

-----------------------------------------------------------------------------
(* C20 *)

\* the answered setBreakpoints and breakpointLocations requests
BreakpointAnswers ==
    {t \in TaskIds : /\ tasks[t].kind \in {"setBreakpoints", "breakpointLocations"}
                     /\ tasks[t].pc = "done"}

\* the request's source has no path, or is not resolved to a document
NoDocument(t) == tasks[t].path = NoPath \/ DocUri(tasks[t].path) \notin OpenableDocs

\* the source has no loaded candidates
NoCandidates(t) == ~NoDocument(t) /\ LocationsOf(DocUri(tasks[t].path)) = <<>>

LastOf(h) == h[Len(h)]
IsErrorResponse(x) == x.e = "errorResponse"

\* C20 as stated: setBreakpoints and breakpointLocations never answer with
\* an error response; when the source has no document or no loaded
\* candidates the answer is a success response whose body carries an empty
\* breakpoint list.
C20_EmptyListNotError ==
    \A t \in BreakpointAnswers :
        LET h == tasks[t].hist
        IN  /\ SelectSeq(h, IsErrorResponse) = <<>>
            /\ LastOf(h).e = "response"
            /\ (NoDocument(t) \/ NoCandidates(t))
                   => LastOf(h) = BodyResponse(tasks[t].kind, <<>>)

\* C20, amended: setBreakpoints and breakpointLocations never answer with
\* an error response; when the source has no document or no loaded
\* candidates the answer is a success response that carries no breakpoint:
\* a body with an empty list, except that setBreakpoints answers without any
\* body when the source has no document.
C20_NoBreakpointsNotError ==
    \A t \in BreakpointAnswers :
        LET h == tasks[t].hist
        IN  /\ SelectSeq(h, IsErrorResponse) = <<>>
            /\ LastOf(h).e = "response"
            /\ (NoDocument(t) \/ NoCandidates(t))
                   => LastOf(h) = IF tasks[t].kind = "setBreakpoints" /\ NoDocument(t)
                                  THEN Response("setBreakpoints")
                                  ELSE BodyResponse(tasks[t].kind, <<>>)

\* after a failed load both requests were answered for a source that opens
C20_Witness ==
    /\ failureMessage # ""
    /\ \E t, u \in BreakpointAnswers :
           /\ tasks[t].kind = "setBreakpoints" /\ NoCandidates(t)
           /\ tasks[u].kind = "breakpointLocations" /\ NoCandidates(u)
           /\ LastOf(tasks[t].hist) = BodyResponse("setBreakpoints", <<>>)

-----------------------------------------------------------------------------
(* C21 *)

\* the handler of a step request, or of a launch with debugging
IsInteractive(task) ==
    \/ task.kind \in DOMAIN StepCommands
    \/ task.kind = "launch" /\ ~task.noDebug

\* the engine call that matches the request
ExpectedCall(task) ==
    IF task.kind = "launch"
    THEN IF stopOnEntry THEN "evalStepIn" ELSE "evalContinue"
    ELSE StepCommands[task.kind]

\* the ids of the armed breakpoints of the sources
ArmedIds == UNION {SeqRange(IdsOf(ArmedOf(u))) : u \in Uris}

StepCallsOf(ts, t) == IF t <= Len(ts) THEN SelectSeq(ts[t].hist, IsStepCall) ELSE <<>>

\* C21: every step request issues exactly one engine call, a launch with
\* debugging at most one; the call is of the kind that matches the request,
\* and the list of ids passed to it holds, when the call is issued, every id
\* of every armed breakpoint of every source once, and no other id.
C21_OneCallWithArmedIds ==
    [][\A t \in 1..Len(tasks') :
           IsInteractive(tasks'[t]) =>
               LET calls == StepCallsOf(tasks', t)
               IN  /\ Len(calls) <= 1
                   /\ tasks'[t].kind \in DOMAIN StepCommands => Len(calls) = 1
                   /\ calls # <<>> => calls[1].a = ExpectedCall(tasks'[t])
                   /\ (calls # <<>> /\ StepCallsOf(tasks, t) = <<>>)
                          => /\ SeqRange(calls[1].ids) = ArmedIds
                             /\ Len(calls[1].ids) =
                                    Len(ArmedOf(UriA)) + Len(ArmedOf(UriB))]_vars

\* a step request was dispatched with the ids of breakpoints of both sources
C21_Witness ==
    \E t \in TaskIds :
        /\ tasks[t].kind \in DOMAIN StepCommands
        /\ StepCallsOf(tasks, t) # <<>>
        /\ 3 \in SeqRange(StepCallsOf(tasks, t)[1].ids)
        /\ 1 \in SeqRange(StepCallsOf(tasks, t)[1].ids)
        /\ ArmedOf(UriA) # <<>> /\ ArmedOf(UriB) # <<>>

-----------------------------------------------------------------------------
(* C22 *)

\* the indexes in h of the elements that satisfy P
IndexesOf(h, P(_)) == {j \in 1..Len(h) : P(h[j])}

IsResponse(x) == x.e = "response"

\* C22: a continue, next, stepIn or stepOut request sends its response, one
\* response, before it issues its engine call, and every stopped, terminated
\* or exited event of that step is raised after the response and after the
\* call; the launch response is sent before every engine step or
\* continuation call of the launch and before every event it raises.
C22_ResponseBeforeExecution ==
    \A t \in TaskIds :
        LET h == tasks[t].hist
            responses == IndexesOf(h, IsResponse)
            calls == IndexesOf(h, IsStepCall)
            events == IndexesOf(h, IsLifecycleEvent)
        IN  /\ tasks[t].kind \in DOMAIN StepCommands =>
                  /\ responses = {1} /\ h[1] = Response(tasks[t].kind)
                  /\ \A c \in calls : c > 1
                  /\ \A e \in events : e > 1 /\ \E c \in calls : c < e
            /\ (tasks[t].kind = "launch" /\ (calls # {} \/ events # {})) =>
                  /\ Cardinality(responses) = 1
                  /\ \A r \in responses :
                         /\ h[r] = Response("launch")
                         /\ \A c \in calls : r < c
                         /\ \A e \in events : r < e

\* a step request has raised a stopped event after its response, in a session
\* whose launch sent its response before its engine call
C22_Witness ==
    \E t, l \in TaskIds :
        /\ tasks[t].kind \in DOMAIN StepCommands /\ tasks[t].pc = "done"
        /\ tasks[t].hist[1] = Response(tasks[t].kind)
        /\ \E e \in 2..Len(tasks[t].hist) : tasks[t].hist[e].e = "stopped"
        /\ tasks[l].kind = "launch"
        /\ tasks[l].hist # <<>> /\ tasks[l].hist[1] = Response("launch")
        /\ IndexesOf(tasks[l].hist, IsStepCall) # {}

-----------------------------------------------------------------------------
(* C23 *)

\* the reload of the shot loop of task t reports a failure in this step
ReloadFails(t) ==
    /\ tasks[t].kind = "launch" /\ tasks[t].pc = "load"
    /\ failureMessage = "" /\ failureMessage' # ""

\* what the shot loop does on a failed reload
AbortOnReload(failure, exitCode) ==
    <<Console(failure, 0), Console("", 0), Console(SimulationCompleted, 0),
      Ev("terminated", "", 0, <<>>), Ev("exited", "", exitCode, <<>>)>>

\* C23: when the reload that follows completed shot i reports a failure, the
\* shot loop writes the failure message to the console and ends the session
\* with terminated then exited with a code other than 0, and the handler is
\* over, so that no continuation call follows; "Finished shot i" is then the
\* last shot reported, before the reload was called.
C23_FailedReloadAborts ==
    [][\A t \in 1..Len(tasks) :
           /\ ReloadFails(t) =>
                  LET h == tasks[t].hist
                      i == Len(ReturnsOf(h))
                      shots == SelectSeq(h, IsFinishedShot)
                  IN  /\ tasks'[t].pc = "done"
                      /\ \E exitCode \in {-1, 1} :
                             tasks'[t].hist = Append(h, Loaded(failureMessage'))
                                                 \o AbortOnReload(failureMessage', exitCode)
                      /\ shots # <<>> /\ LastOf(shots) = Console(FinishedShot, i)
                      /\ Len(h) >= 2 /\ IsReload(h[Len(h)]) /\ IsFinishedShot(h[Len(h) - 1])
           /\ Over(t) => tasks'[t] = tasks[t]]_vars

\* the reload after the first of two shots failed, and the run is over
C23_Witness ==
    \E t \in TaskIds :
        LET h == tasks[t].hist
        IN  /\ NoDebugRun(t) /\ tasks[t].shots = 2 /\ tasks[t].pc = "done"
            /\ failureMessage # ""
            /\ Len(ReturnsOf(h)) = 1
            /\ SelectSeq(h, IsFinishedShot) = <<Console(FinishedShot, 1)>>
            /\ LastOf(h) = Ev("exited", "", -1, <<>>)

-----------------------------------------------------------------------------
(* C24 *)

\* the calls of asUri, each with its input and its result
UriCalls ==
    {[input |-> tasks[t].path, result |-> tasks[t].hist[1].ids[1]] :
        t \in {u \in TaskIds : tasks[u].kind = "asUri"}}

\* the sources of the program that have the file scheme
FileSources == {src \in SeqRange(program) : UriParse(src).scheme = "file"}

\* a text without a scheme
IsFlatPath(text) == text # <<>> /\ Head(text) \notin SchemePieces

Registered(text) == text \in DOMAIN knownPaths

\* C24: a flat path is registered only for a source of the program with the
\* file scheme, as that source's path; asUri of a registered flat path gives
\* the identifier of a source it was derived from; asUri of any other input
\* gives that input parsed; and asUri of a flat path that is not registered
\* never gives the identifier of a registered source.
C24_SourceResolution ==
    /\ \A q \in DOMAIN knownPaths :
           \E src \in FileSources : fsPath(UriParse(src)) = q /\ knownPaths[q] = src
    /\ \A c \in UriCalls :
           /\ Registered(c.input) =>
                  \E src \in FileSources :
                      fsPath(UriParse(src)) = c.input /\ c.result = UriParse(src)
           /\ ~Registered(c.input) => c.result = UriParse(c.input)
           /\ (IsFlatPath(c.input) /\ ~Registered(c.input)) =>
                  \A src \in FileSources : c.result # UriParse(src)

-----------------------------------------------------------------------------
(* C25 *)

IsCircuitCall(x) == x = Call("getCircuit", <<>>)
IsPanelUpdate(x) == x.e = "panel"

\* what h holds of the call of updateCircuit that begins at j: up to the next
\* call of updateCircuit, or to the end of h
UpdateSegment(h, j) ==
    LET later == {m \in (j + 1)..Len(h) : IsUpdate(h[m])}
        stop == IF later = {} THEN Len(h) + 1
                ELSE CHOOSE m \in later : \A o \in later : m <= o
    IN  SubSeq(h, j + 1, stop - 1)

\* the call of updateCircuit that begins at j of the history of task is still
\* waiting for getCircuit
UpdateWaiting(task, j) ==
    /\ task.pc \in CircuitWaits
    /\ \A m \in (j + 1)..Len(task.hist) : ~IsUpdate(task.hist[m])

\* C25: a call of updateCircuit made while showCircuit is off and the panel
\* is not open calls getCircuit never, sends no panel update and leaves
\* revealedCircuit as it is; a call made while one of the two holds calls
\* getCircuit once and, when it is over, has sent one panel update, with
\* simulated = true.
C25_UpdateOnlyWhenVisible ==
    [][\A t \in 1..Len(tasks') :
           LET h == tasks'[t].hist
               old == IF t <= Len(tasks) THEN Len(tasks[t].hist) ELSE 0
           IN  \A j \in 1..Len(h) :
                   IsUpdate(h[j]) =>
                       LET seg == UpdateSegment(h, j)
                           calls == SelectSeq(seg, IsCircuitCall)
                           panels == SelectSeq(seg, IsPanelUpdate)
                       IN  /\ (j > old /\ ~(showCircuit' \/ panelOpen')) =>
                                  /\ calls = <<>> /\ panels = <<>>
                                  /\ revealedCircuit' = revealedCircuit
                           /\ (j > old /\ (showCircuit' \/ panelOpen')) => Len(calls) = 1
                           /\ (calls # <<>> /\ ~UpdateWaiting(tasks'[t], j)) =>
                                  /\ Len(calls) = 1 /\ Len(panels) = 1
                                  /\ panels[1].ids = <<"simulated">>]_vars

-----------------------------------------------------------------------------
(* C26 *)

IsBreakpointStop(x) ==
    \/ x.e = "return" /\ x.a = "BreakpointHit"
    \/ x.e = "stopped" /\ x.a = "breakpoint"

\* C26: every engine call of a run without debugging is a continuation call
\* with an empty list of breakpoint ids, whatever is armed, and the run gets
\* no breakpoint hit from the engine and raises no stopped event for one.
C26_ShotsPassNoBreakpoints ==
    \A t \in TaskIds :
        (tasks[t].kind = "launch" /\ tasks[t].noDebug) =>
            LET h == tasks[t].hist
            IN  /\ \A j \in 1..Len(h) :
                       IsStepCall(h[j]) => h[j] = Call("evalContinue", <<>>)
                /\ SelectSeq(h, IsBreakpointStop) = <<>>
                /\ tasks[t].pc = "shotEval" => tasks[t].bps = <<>>

\* a setBreakpoints request that came before the launch has armed
\* breakpoints, and a shot's continuation call is in flight with no ids
C26_Witness ==
    \E t, b \in TaskIds :
        /\ b < t
        /\ tasks[b].kind = "setBreakpoints" /\ tasks[b].pc = "done"
        /\ getBreakpointIds # <<>>
        /\ NoDebugRun(t) /\ tasks[t].pc = "shotEval"
        /\ LastOf(tasks[t].hist) = Call("evalContinue", <<>>)

-----------------------------------------------------------------------------
(* C27 *)

IsLoaded(x) == x.e = "loaded"
IsCandidateQuery(x) == x.e = "call" /\ x.a = "getBreakpoints"

\* what h holds of the load whose answer is at j: up to the next loadProgram
\* call, or to the end of h
LoadSegment(h, j) ==
    LET later == {m \in (j + 1)..Len(h) : IsReload(h[m])}
        stop == IF later = {} THEN Len(h) + 1
                ELSE CHOOSE m \in later : \A o \in later : m <= o
    IN  SubSeq(h, j + 1, stop - 1)

\* one getBreakpoints call for each root source, in their order
RootQueries == [k \in 1..Len(RootSources) |-> Call("getBreakpoints", <<RootSources[k]>>)]

\* the history of task t of ts, <<>> if there is no such task
HistOf(ts, t) == IF t <= Len(ts) THEN ts[t].hist ELSE <<>>

\* C27: getBreakpoints is called only after a load that reported no failure,
\* once for each root source after each such load; a load that reports a
\* failure is followed by no getBreakpoints call, stores the failure message
\* and leaves the cached candidates as they were.
C27_CandidatesAfterGoodLoad ==
    [][\A t \in 1..Len(tasks') :
           LET h == tasks'[t].hist
           IN  /\ \A j \in 1..Len(h) :
                      IsLoaded(h[j]) =>
                          LET queries == SelectSeq(LoadSegment(h, j), IsCandidateQuery)
                          IN  /\ h[j].a # "" => queries = <<>>
                              /\ h[j].a = "" =>
                                     /\ queries = SubSeq(RootQueries, 1, Len(queries))
                                     /\ tasks'[t].pc # "getBps" => queries = RootQueries
                              /\ (j > Len(HistOf(tasks, t)) /\ h[j].a # "") =>
                                     /\ failureMessage' = h[j].a
                                     /\ breakpointLocations' = breakpointLocations
               /\ \A j \in 1..Len(h) :
                      IsCandidateQuery(h[j]) =>
                          \E l \in 1..(j - 1) :
                              /\ h[l] = Loaded("")
                              /\ \A m \in (l + 1)..(j - 1) : IsCandidateQuery(h[m])]_vars

\* the first load filled the cache, the reload after a shot failed, and the
\* cache still holds the candidates of both root sources
C27_Witness ==
    \E t \in TaskIds :
        /\ NoDebugRun(t) /\ tasks[t].pc = "done"
        /\ \E j \in 1..Len(tasks[t].hist) : tasks[t].hist[j] = Loaded(CompileError)
        /\ failureMessage = CompileError
        /\ DOMAIN breakpointLocations = {UriA, UriB}
        /\ SelectSeq(tasks[InitTask].hist, IsCandidateQuery) = RootQueries

-----------------------------------------------------------------------------
(* C28 *)

\* the four events of endSession, for some exit code
IsSessionEnd(q) ==
    /\ Len(q) = 4
    /\ q[1] = Console("", 0)
    /\ q[2] = Console(SimulationCompleted, 0)
    /\ q[3] = Ev("terminated", "", 0, <<>>)
    /\ q[4].e = "exited" /\ q[4].n \in {-1, 0, 1}

\* C28: every terminated event comes right after the console lines "" and
\* "Q# simulation completed." and right before one exited event; every
\* exited event comes right after a terminated event; the four are raised in
\* one step of their handler, in which no other handler raises an event, and
\* the handler is over after them.
C28_TerminatedThenExited ==
    [][\A t \in 1..Len(tasks') :
           LET h == tasks'[t].hist
               old == Len(HistOf(tasks, t))
           IN  \A j \in 1..Len(h) :
                   /\ h[j].e = "terminated" =>
                          /\ j >= 3 /\ j + 1 <= Len(h)
                          /\ IsSessionEnd(SubSeq(h, j - 2, j + 1))
                          /\ j + 1 = Len(h) /\ tasks'[t].pc = "done"
                          /\ j > old =>
                                 /\ j - 2 > old
                                 /\ \A o \in 1..Len(tasks') :
                                        o # t => EventsOf(tasks', o) = EventsOf(tasks, o)
                   /\ h[j].e = "exited" => j >= 2 /\ h[j - 1].e = "terminated"]_vars

\* two handlers have ended the session, with different exit codes
C28_Witness ==
    \E t, u \in TaskIds :
        /\ t # u
        /\ Len(tasks[t].hist) >= 4 /\ Len(tasks[u].hist) >= 4
        /\ IsSessionEnd(SubSeq(tasks[t].hist, Len(tasks[t].hist) - 3, Len(tasks[t].hist)))
        /\ IsSessionEnd(SubSeq(tasks[u].hist, Len(tasks[u].hist) - 3, Len(tasks[u].hist)))
        /\ LastOf(tasks[t].hist).n # LastOf(tasks[u].hist).n

-----------------------------------------------------------------------------
(* C29 *)

\* the engine's answers in h that report a breakpoint hit
HitsOf(h) == {h[j].n : j \in {i \in 1..Len(h) : h[i].e = "return" /\ h[i].a = "BreakpointHit"}}

\* C29: the ids of a step are those armed when the step is dispatched; while
\* its engine call is in flight no step of the session, a setBreakpoints
\* request among them, changes the ids the call was issued with, and the
\* call hits only a breakpoint of those ids; a step dispatched later is
\* issued with the ids armed then.
C29_IdsAreSnapshot ==
    [][\A t \in 1..Len(tasks') :
           LET calls == StepCallsOf(tasks', t)
           IN  /\ (calls # <<>> /\ StepCallsOf(tasks, t) = <<>> /\ IsInteractive(tasks'[t]))
                      => SeqRange(calls[1].ids) = ArmedIds
               /\ (t <= Len(tasks) /\ tasks[t].pc = "evalStep") =>
                      /\ calls = StepCallsOf(tasks, t)
                      /\ tasks'[t].pc = "evalStep" => tasks'[t].bps = tasks[t].bps
                      /\ HitsOf(tasks'[t].hist) \subseteq SeqRange(calls[1].ids)]_vars

\* a call issued with armed ids is in flight while other ids are armed, and
\* a later step has been issued with those
C29_Witness ==
    \E t, u \in TaskIds :
        /\ t < u
        /\ tasks[t].pc = "evalStep" /\ tasks[u].pc = "evalStep"
        /\ tasks[t].bps # <<>> /\ tasks[u].bps # <<>>
        /\ tasks[t].bps # getBreakpointIds
        /\ tasks[u].bps = getBreakpointIds
        /\ StepCallsOf(tasks, t)[1].ids = tasks[t].bps

-----------------------------------------------------------------------------
(* C30 *)

\* the step handles a configurationDone request
ConfigurationDoneHandled ==
    /\ Len(tasks') = Len(tasks) + 1
    /\ tasks'[Len(tasks')].kind = "configurationDone"

\* C30: a launch of a loaded program starts by waiting, whatever
\* configurationDone requests were handled before it; it leaves its wait
\* only in the step in which the delay elapses or in a step that handles a
\* configurationDone request while the delay is still pending.
C30_SignalNotLatched ==
    [][\A t \in 1..Len(tasks') :
           /\ (t > Len(tasks) /\ tasks'[t].kind = "launch" /\ failureMessage = "")
                  => tasks'[t].pc = "waitConfig" /\ tasks'[t].hist = <<>>
           /\ (t <= Len(tasks) /\ tasks[t].pc = "waitConfig" /\ tasks'[t].pc # "waitConfig")
                  => /\ delayTimer = "pending"
                     /\ \/ delayTimer' = "fired"
                        \/ delayTimer' = "pending" /\ ConfigurationDoneHandled]_vars

\* a configurationDone request was handled before the launch, and the launch
\* went on when the delay elapsed, its listener never called
C30_Witness ==
    \E c, t \in TaskIds :
        /\ c < t
        /\ tasks[c].kind = "configurationDone"
        /\ AwaitedLaunch(t) /\ ResponseSent(t)
        /\ delayTimer = "fired" /\ configListener

-----------------------------------------------------------------------------
(* C31 *)

IsCircuitFault(x) == x = Ev("fault", "getCircuit", 0, <<>>)

\* the history of task t holds a failed getCircuit query
UpdateFailed(t) == SelectSeq(tasks[t].hist, IsCircuitFault) # <<>>

\* C31: an interactive step whose visualization update met a failing
\* getCircuit query was acked and got an answer of the engine before, the
\* update was one with visualization active (it reached getCircuit), and the
\* step raises no stopped, terminated or exited event, whatever the engine
\* answered: its handler ends rejected at the failure.
C31_NoOutcomeWhenUpdateFails ==
    \A t \in TaskIds :
        LET h == tasks[t].hist
        IN  (InteractiveStep(t) /\ UpdateFailed(t)) =>
                /\ SelectSeq(h, IsLifecycleEvent) = <<>>
                /\ tasks[t].pc = "rejected"
                /\ IsCircuitFault(h[Len(h)])
                /\ IsCircuitCall(h[Len(h) - 1])
                /\ Len(ReturnsOf(h)) = 1
                /\ SelectSeq(h, IsResponse) # <<>>

\* a step whose engine call hit a breakpoint, followed by a failed getCircuit
\* query
C31_Witness ==
    \E t \in TaskIds :
        /\ InteractiveStep(t) /\ UpdateFailed(t)
        /\ ReturnsOf(tasks[t].hist)[1].a = "BreakpointHit"

-----------------------------------------------------------------------------
(* C32 *)

\* h[j] is the failure of the update that follows a shot's completed call:
\* the answer Completed, updateCircuit(), getCircuit, the failure
CompletedShotUpdateFailed(h, j) ==
    /\ j >= 4
    /\ IsCircuitFault(h[j])
    /\ h[j - 2] = Ev("updateCircuit", "", 0, <<>>)
    /\ h[j - 3] = Ev("return", "Return", 0, <<>>)

FaultEnd == <<Ev("terminated", "", 0, <<>>), Ev("exited", "", 1, <<>>)>>

\* C32: in a run without debugging, when the update after a shot's completed
\* call fails, the next thing the run does is a second update carrying the
\* error; no "Finished shot" is reported for that shot (the finished shots
\* are those before it), no later shot is run and nothing is reloaded; and
\* once the second update has succeeded the run has ended with terminated
\* and exited(1), which are its only lifecycle events.
C32_FailedUpdateEndsRunAsFault ==
    \A t \in TaskIds :
        LET h == tasks[t].hist
        IN  \A j \in 1..Len(h) :
                (NoDebugRun(t) /\ CompletedShotUpdateFailed(h, j)) =>
                    /\ Len(h) > j
                    /\ h[j + 1] = Ev("updateCircuit", "error", 0, <<>>)
                    /\ SelectSeq(After(h, j), IsFinishedShot) = <<>>
                    /\ Len(SelectSeq(h, IsFinishedShot)) = Len(ReturnsOf(h)) - 1
                    /\ SelectSeq(After(h, j), IsContinuation) = <<>>
                    /\ SelectSeq(After(h, j), IsReload) = <<>>
                    /\ IF \E m \in (j + 1)..Len(h) : h[m].e = "updated"
                       THEN /\ SelectSeq(h, IsLifecycleEvent) = FaultEnd
                            /\ tasks[t].pc = "done"
                            /\ \E m \in (j + 1)..Len(h) :
                                   h[m] = Ev("panel", "error", h[m].n, <<"simulated">>)
                       ELSE SelectSeq(h, IsLifecycleEvent) = <<>>

\* the second shot's update failed, the update with the error succeeded and
\* the run ended
C32_Witness ==
    \E t \in TaskIds :
        LET h == tasks[t].hist
        IN  \E j \in 1..Len(h) :
                /\ NoDebugRun(t) /\ CompletedShotUpdateFailed(h, j)
                /\ Len(ReturnsOf(h)) = 2
                /\ h[Len(h)] = Ev("exited", "", 1, <<>>)

-----------------------------------------------------------------------------
(* C33 *)

\* a launch without debugging that asked for no shot
NoShotRun(t) == NoDebugRun(t) /\ tasks[t].shots = 0

SessionEnd(exitCode) ==
    <<Console("", 0), Console(SimulationCompleted, 0),
      Ev("terminated", "", 0, <<>>), Ev("exited", "", exitCode, <<>>)>>

\* C33: a launch without debugging with shots = 0 has, from its response on,
\* done nothing but end the session: the response is followed at once by the
\* two console lines of endSession, terminated and exited(0), and its history
\* holds no continuation call, no visualization update, no reload and no
\* finished shot.
C33_NoShotsEndsAtOnce ==
    \A t \in TaskIds :
        LET h == tasks[t].hist
        IN  NoShotRun(t) =>
                /\ \E j \in 1..Len(h) :
                       /\ h[j] = Response("launch")
                       /\ After(h, j) = SessionEnd(0)
                /\ tasks[t].pc = "done"
                /\ SelectSeq(h, IsContinuation) = <<>>
                /\ SelectSeq(h, IsUpdate) = <<>>
                /\ SelectSeq(h, IsCircuitCall) = <<>>
                /\ SelectSeq(h, IsReload) = <<>>
                /\ SelectSeq(h, IsFinishedShot) = <<>>

\* such a launch was answered, with visualization active
C33_Witness ==
    \E t \in TaskIds : NoShotRun(t) /\ VizActive

-----------------------------------------------------------------------------
(* C34 *)

\* in this step the setBreakpoints request of task t is answered without a
\* document: its source had no path, or tryLoadSource gave undefined
AnsweredWithoutDocument(t) ==
    /\ tasks'[t].kind = "setBreakpoints"
    /\ tasks'[t].pc = "done"
    /\ LastOf(tasks'[t].hist) = SetBreakpointsNoDocument
    /\ t > Len(tasks) \/ tasks[t].pc = "openDoc"

\* in this step task t issues the engine call of a step
StepCallIssued(t) ==
    /\ tasks'[t].pc = "evalStep"
    /\ t > Len(tasks) \/ tasks[t].pc # "evalStep"

\* C34: a step in which a setBreakpoints request is answered without a
\* document leaves the armed breakpoints of every source as they were, and a
\* step in which an engine call is issued passes it the ids of all armed
\* breakpoints; so what was armed before such a request is what the next
\* step passes.
C34_NoDocumentKeepsArmed ==
    [][\A t \in 1..Len(tasks') :
           /\ AnsweredWithoutDocument(t) =>
                  /\ breakpoints' = breakpoints
                  /\ \A u \in Uris : ArmedOf(u)' = ArmedOf(u)
           /\ StepCallIssued(t) =>
                  /\ breakpoints' = breakpoints
                  /\ tasks'[t].bps = FlattenIds(breakpoints)
                  /\ LastOf(tasks'[t].hist).ids = FlattenIds(breakpoints)]_vars

\* breakpoints were armed for a path, a later request for the same path got
\* no document, and a step that came after it passed the armed ids
C34_Witness ==
    \E a \in TaskIds : \E f \in TaskIds : \E st \in TaskIds :
        /\ a < f /\ f < st
        /\ tasks[a].kind = "setBreakpoints" /\ tasks[a].path = PathA
        /\ tasks[a].pc = "done"
        /\ LastOf(tasks[a].hist).n = 1 /\ LastOf(tasks[a].hist).ids # <<>>
        /\ tasks[f].kind = "setBreakpoints" /\ tasks[f].path = PathA
        /\ tasks[f].pc = "done" /\ LastOf(tasks[f].hist) = SetBreakpointsNoDocument
        /\ InteractiveStep(st) /\ StepCallsOf(tasks, st) # <<>>
        /\ StepCallsOf(tasks, st)[1].ids = LastOf(tasks[a].hist).ids
        /\ ArmedOf(UriA) # <<>>

-----------------------------------------------------------------------------
(* C35 *)

\* breakpoint b is the one of the engine's location e: verified, with e's id
\* and e's range in the client's 1-based lines and columns
IsBreakpointOf(b, e) ==
    /\ b.verified
    /\ b.id = e.id
    /\ b.line = e.range.start[1] + 1
    /\ b.column = e.range.start[2] + 1
    /\ b.endLine = e.range.end[1] + 1
    /\ b.endColumn = e.range.end[2] + 1

\* the ids of the locations the engine gives for the root sources
CandidateIds == UNION {{engineLocs[u][k].id : k \in 1..Len(engineLocs[u])} : u \in Uris}

\* C35: every armed breakpoint of a source is the breakpoint of one of the
\* candidates cached for that source (verified, the candidate's engine id,
\* the candidate's client range), and every id that a step passed to the
\* engine is the id of a candidate the engine gave.
C35_ArmedAreCandidates ==
    /\ \A m \in 1..Len(breakpoints) :
           LET u == breakpoints[m][1]
               armed == breakpoints[m][2]
           IN  \A k \in 1..Len(armed) :
                   /\ \E c \in 1..Len(LocationsOf(u)) :
                          LocationsOf(u)[c].breakpoint = armed[k]
                   /\ u \in DOMAIN engineLocs
                   /\ \E e \in SeqRange(engineLocs[u]) : IsBreakpointOf(armed[k], e)
    /\ \A t \in TaskIds :
           \A j \in 1..Len(tasks[t].hist) :
               IsStepCall(tasks[t].hist[j]) =>
                   SeqRange(tasks[t].hist[j].ids) \subseteq CandidateIds

\* breakpoints are armed and a step has passed their ids to the engine
C35_Witness ==
    /\ ArmedOf(UriB) # <<>>
    /\ \E t \in TaskIds : \E j \in 1..Len(tasks[t].hist) :
           /\ IsStepCall(tasks[t].hist[j])
           /\ tasks[t].hist[j].ids = IdsOf(ArmedOf(UriB))

-----------------------------------------------------------------------------
(* C36 *)

\* init has loaded the program and cached the candidates of its last source
LoadedWell == InitDone /\ failureMessage = ""

\* the finished requests of a kind for the source of the dependency package
DepRequests(kind) ==
    {t \in TaskIds : /\ tasks[t].kind = kind /\ tasks[t].pc = "done"
                     /\ DocUri(tasks[t].path) = UriDep}

\* C36: the registry of known paths resolves the client's path of a
\* dependency source to that source, but candidates are cached for the root
\* sources alone; so after a successful load no candidate is cached for the
\* dependency source, every setBreakpoints request for it answers an empty
\* list and arms nothing, and every breakpointLocations request for it
\* answers an empty list.
C36_DependencySourcesResolveEmpty ==
    /\ PathDep \in DOMAIN knownPaths /\ knownPaths[PathDep] = UriDep
    /\ LoadedWell =>
           /\ DOMAIN breakpointLocations = SeqRange(RootSources)
           /\ UriDep \notin DOMAIN breakpointLocations
           /\ ArmedOf(UriDep) = <<>>
           /\ \A t \in DepRequests("setBreakpoints") :
                  LastOf(tasks[t].hist) = BodyResponse("setBreakpoints", <<>>)
           /\ \A t \in DepRequests("breakpointLocations") :
                  LastOf(tasks[t].hist) = BodyResponse("breakpointLocations", <<>>)

\* after a successful load, a setBreakpoints request with a requested
\* breakpoint and a breakpointLocations request for the dependency source
\* were answered, while a request for a root source armed a breakpoint
C36_Witness ==
    /\ LoadedWell
    /\ DepRequests("breakpointLocations") # {}
    /\ \E t \in DepRequests("setBreakpoints") :
           /\ UriDep \in DOMAIN setBpResp
           /\ setBpResp[UriDep].t = t
           /\ setBpResp[UriDep].requested # <<>>
    /\ ArmedOf(UriA) # <<>>

-----------------------------------------------------------------------------
(* C37 *)

PairwiseDistinct(q) == \A i \in 1..Len(q) : \A j \in 1..Len(q) : q[i] = q[j] => i = j

FrameIds(out) == [k \in 1..Len(out) |-> out[k].id]

\* C37: in a stackTrace response for n engine frames the k-th frame is the
\* engine's frame of index n - k and has that index as its id, so the ids of
\* the engine frames are n-1, ..., 0; the entry frame that follows has id 0;
\* hence with n >= 1 the entry frame has the id of the outermost engine frame
\* (the last engine frame of the response), and the ids of the response are
\* pairwise distinct exactly when n = 0.
C37_EntrySharesIdZero ==
    \A st \in StackTraces :
        LET f == st.frames
            n == Len(f)
            out == st.response.ids
            ids == FrameIds(out)
        IN  /\ ids = [k \in 1..(n + 1) |-> IF k <= n THEN n - k ELSE 0]
            /\ \A k \in 1..n : out[k].name = f[(n - k) + 1].name
            /\ out[n + 1].name = "entry"
            /\ n >= 1 => (out[n].id = out[n + 1].id /\ out[n].name = f[1].name)
            /\ PairwiseDistinct(ids) <=> n = 0

\* a stack of two frames has been answered, and so has an empty stack
C37_Witness ==
    /\ \E st \in StackTraces : Len(st.frames) = 2 /\ ~PairwiseDistinct(FrameIds(st.response.ids))
    /\ \E st \in StackTraces : Len(st.frames) = 0 /\ PairwiseDistinct(FrameIds(st.response.ids))

-----------------------------------------------------------------------------
(* C38 *)

CircuitScopeResponse == BodyResponse("variables", <<CircuitVariable>>)

\* task t is a variables request for the circuit scope
CircuitScope(task) == task.kind = "variables" /\ task.handle = "circuit"

\* C38: a variables request for the circuit scope that arrives while
\* showCircuit is on is answered at once with the single entry "Circuit"
\* (variablesReference 0): its whole history is that response, so it issues
\* no getCircuit call and no panel update, and the step changes nothing of
\* the session but the list of handled requests; and every response to a
\* circuit-scope request, the first expansion's included, is that same
\* response.
C38_ExpansionIsIdempotent ==
    [][/\ \A t \in 1..Len(tasks') :
              (t > Len(tasks) /\ CircuitScope(tasks'[t]) /\ showCircuit) =>
                  /\ tasks'[t].hist = <<CircuitScopeResponse>>
                  /\ tasks'[t].pc = "done"
                  /\ SubSeq(tasks', 1, Len(tasks)) = tasks
                  /\ UNCHANGED <<session, config, race>>
       /\ \A t \in 1..Len(tasks') :
              \A j \in 1..Len(tasks'[t].hist) :
                  (CircuitScope(tasks'[t]) /\ IsResponse(tasks'[t].hist[j])) =>
                      tasks'[t].hist[j] = CircuitScopeResponse]_vars

\* the scope was expanded with showCircuit off, which updated the panel, and
\* expanded again
C38_Witness ==
    \E t \in TaskIds : \E u \in TaskIds :
        /\ t < u
        /\ CircuitScope(tasks[t]) /\ CircuitScope(tasks[u])
        /\ tasks[t].pc = "done" /\ SelectSeq(tasks[t].hist, IsPanelUpdate) # <<>>
        /\ LastOf(tasks[t].hist) = CircuitScopeResponse
        /\ tasks[u].hist = <<CircuitScopeResponse>>

-----------------------------------------------------------------------------
(* C39 *)

Count(x, q) == Cardinality({i \in 1..Len(q) : q[i] = x})

\* the requested breakpoint names the engine's location: it is on a line of
\* the document, the location starts on that line, and it has no column or
\* its position is within the location's range
Names(sbp, loc) ==
    /\ LineInside(sbp)
    /\ loc.range.start[1] + 1 = sbp.line
    /\ \/ sbp.column \in {<<>>, <<0>>}
       \/ RangeContains(loc.range, <<sbp.line - 1, sbp.column[1] - 1>>)

\* the ids of the engine's locations of uri that sbp names, in the engine's order
NamedIds(uri, sbp) ==
    LET NamedBy(loc) == Names(sbp, loc)
    IN  IdsWhere(engineLocs[uri], NamedBy)

\* the resolved ids of a request: those of its first breakpoint, then those
\* of its second, and so on
ResolvedInOrder(uri, requested) ==
    Concat([k \in 1..Len(requested) |-> NamedIds(uri, requested[k])])

\* how many of the requested breakpoints name the location of this id
TimesNamed(uri, requested, id) ==
    Cardinality({k \in 1..Len(requested) : Count(id, NamedIds(uri, requested[k])) > 0})

RECURSIVE ArmedIdList(_)
ArmedIdList(m) ==
    IF m = <<>> THEN <<>> ELSE IdsOf(Head(m)[2]) \o ArmedIdList(Tail(m))

\* C39: the last resolved request of a source answered, and armed, the
\* candidates of its first requested breakpoint, then those of its second,
\* and so on, so that a candidate named by several requested breakpoints is
\* there once for each of them; and a step that issues an engine call passes
\* each id as many times as it is armed.
C39_NoDeduplication ==
    [][/\ \A u \in DOMAIN setBpResp' :
              LET r == setBpResp'[u]
                  ids == IdsOf(r.body)
              IN  /\ ids = ResolvedInOrder(u, r.requested)
                  /\ LastOf(tasks'[r.t].hist) = BodyResponse("setBreakpoints", ids)
                  /\ IdsOf(ArmedOf(u)') = ids
                  /\ \A loc \in SeqRange(engineLocs[u]) :
                         Count(loc.id, IdsOf(ArmedOf(u)')) = TimesNamed(u, r.requested, loc.id)
       /\ \A t \in 1..Len(tasks') :
              StepCallIssued(t) =>
                  /\ LastOf(tasks'[t].hist).ids = ArmedIdList(breakpoints')
                  /\ \A id \in CandidateIds :
                         Count(id, LastOf(tasks'[t].hist).ids)
                             = Count(id, IdsOf(ArmedOf(UriA)')) + Count(id, IdsOf(ArmedOf(UriB)'))]_vars

\* a request of two breakpoints that name the same candidate was answered
\* with it twice, it is armed twice, and a step passed its id twice
C39_Witness ==
    /\ UriA \in DOMAIN setBpResp
    /\ Len(setBpResp[UriA].requested) = 2
    /\ setBpResp[UriA].requested[1] # setBpResp[UriA].requested[2]
    /\ \E id \in CandidateIds :
           /\ Count(id, IdsOf(setBpResp[UriA].body)) = 2
           /\ Count(id, IdsOf(ArmedOf(UriA))) = 2
           /\ \E t \in TaskIds :
                  /\ InteractiveStep(t) /\ StepCallsOf(tasks, t) # <<>>
                  /\ Count(id, StepCallsOf(tasks, t)[1].ids) = 2

====
